---- MODULE Spec2Model ----
(***************************************************************************)
(* Model of the Telegram MCP server's background message archiver:        *)
(* MessageSyncService (message-sync-service.js), the peer normalisation   *)
(* of telegram-client.js and the scheduleMessageSync / shutdown paths of  *)
(* the HTTP host.  JavaScript runs one callback at a time, so every       *)
(* action below is the code between two suspension points (await).        *)
(***************************************************************************)
EXTENDS Integers, Sequences, FiniteSets, TLC

\* ------------------------------------------------------------------ bounds
MaxMsgId == 4      \* channel histories hold message ids within 1..MaxMsgId
MaxClock == 4      \* wall-clock seconds the model follows
MaxLoops == 2      \* coroutine slots available to processQueue() invocations
MaxRestarts == 1   \* process crashes / exits followed by a restart
MaxBatch == 3      \* batch sizes 1..MaxBatch where the batch size is varied
MaxSleepClock == 7 \* MaxClock where time only passes while the worker sleeps
MaxBatchLen == 2   \* records per insertMessagesTx call where batches are enumerated
MaxSessions == 3   \* session ids that randomUUID() issues
MaxChars == 3      \* characters of the strings handed to normalizeChannelId
MaxCalls == 2      \* getChannelMessages executions of the dialog-cache server under way at once
DeepMsgId == 7     \* message ids and depths of the deep-history runs (SpecDeep)
DeepBatch == 5     \* batch sizes of the deep-history runs (SpecDeep)

\* ------------------------------------------------------- program constants
DEFAULT_TARGET_MESSAGES == 1000
interJobDelayMs == 3000
interBatchDelayMs == 1200
deployedBatchSize == 100

PENDING == "pending"
IN_PROGRESS == "in_progress"
IDLE == "idle"
ERROR == "error"
JOB_STATUS == {PENDING, IN_PROGRESS, IDLE, ERROR}

\* SQL NULL / JS null: the empty tuple; a present value v is <<v>>.
Null == <<>>
Some(v) == <<v>>
IsNull(x) == x = <<>>
Val(x) == x[1]
\* JS a ?? b on nullable values
Coalesce(a, b) == IF IsNull(a) THEN b ELSE a
\* JS x || null on a nullable integer: 0 is falsy as well
OrNull(x) == IF IsNull(x) \/ Val(x) = 0 THEN Null ELSE x

Min2(a, b) == IF a <= b THEN a ELSE b
SetMax(S) == CHOOSE x \in S : \A y \in S : y <= x
SetMin(S) == CHOOSE x \in S : \A y \in S : x <= y

RECURSIVE DescSeq(_)
\* the elements of a finite set of integers, greatest first
DescSeq(S) == IF S = {} THEN <<>> ELSE <<SetMax(S)>> \o DescSeq(S \ {SetMax(S)})

RECURSIVE AscSeq(_)
\* the elements of a finite set of integers, least first
AscSeq(S) == IF S = {} THEN <<>> ELSE <<SetMin(S)>> \o AscSeq(S \ {SetMin(S)})

Take(s, n) == SubSeq(s, 1, Min2(Len(s), n))
Range(s) == {s[i] : i \in 1..Len(s)}

\* ---------------------------------------------------------- peer codec
\* Characters are one-letter strings; a JS string is a sequence of them.
DigitChars == <<"0", "1", "2", "3", "4", "5", "6", "7", "8", "9">>
IsDigit(c) == \E i \in 1..10 : DigitChars[i] = c
DigitVal(c) == (CHOOSE i \in 1..10 : DigitChars[i] = c) - 1
IsSpace(c) == c = " "

RECURSIVE TrimLeft(_)
TrimLeft(cs) == IF cs # <<>> /\ IsSpace(Head(cs)) THEN TrimLeft(Tail(cs)) ELSE cs

RECURSIVE TrimRight(_)
TrimRight(cs) ==
  IF cs # <<>> /\ IsSpace(cs[Len(cs)]) THEN TrimRight(SubSeq(cs, 1, Len(cs) - 1)) ELSE cs

\* String.prototype.trim
Trim(cs) == TrimRight(TrimLeft(cs))

\* /^-?\d+$/.test(cs)
IsNumericString(cs) ==
  LET body == IF cs # <<>> /\ Head(cs) = "-" THEN Tail(cs) ELSE cs
  IN  body # <<>> /\ \A i \in 1..Len(body) : IsDigit(body[i])

RECURSIVE DigitsToNat(_)
DigitsToNat(ds) ==
  IF ds = <<>> THEN 0 ELSE 10 * DigitsToNat(SubSeq(ds, 1, Len(ds) - 1)) + DigitVal(ds[Len(ds)])

\* Number(cs) for a string that matched /^-?\d+$/
NumberOf(cs) == IF Head(cs) = "-" THEN 0 - DigitsToNat(Tail(cs)) ELSE DigitsToNat(cs)

RECURSIVE NatToChars(_)
NatToChars(n) ==
  IF n < 10 THEN <<DigitChars[n + 1]>>
  ELSE NatToChars(n \div 10) \o <<DigitChars[(n % 10) + 1]>>

\* String(n) for an integer
IntToChars(n) == IF n < 0 THEN <<"-">> \o NatToChars(0 - n) ELSE NatToChars(n)

\* JS values handed to the codec
NumberV(n) == [type |-> "number", num |-> n, chars |-> <<>>]
StringV(cs) == [type |-> "string", num |-> 0, chars |-> cs]
BigIntV(n) == [type |-> "bigint", num |-> n, chars |-> <<>>]
Thrown == [type |-> "throw", num |-> 0, chars |-> <<>>]

\* export function normalizeChannelId(channelId)
normalizeChannelId(channelId) ==
  IF channelId.type = "number" THEN channelId
  ELSE IF channelId.type = "bigint" THEN NumberV(channelId.num)
  ELSE IF channelId.type = "string" THEN
    LET trimmed == Trim(channelId.chars)
    IN  IF IsNumericString(trimmed) THEN NumberV(NumberOf(trimmed)) ELSE StringV(trimmed)
  ELSE Thrown

\* String(v) for a number or a string
StringOf(v) == IF v.type = "number" THEN IntToChars(v.num) ELSE v.chars

\* ------------------------------------------------------- archive store
\* A jobs row; the table is the sequence of its rows in rowid order.
JobRow(id, channel_id, target, ts) ==
  [id |-> id, channel_id |-> channel_id, status |-> PENDING,
   last_message_id |-> 0, oldest_message_id |-> Null,
   target_message_count |-> target, message_count |-> 0,
   created_at |-> ts, updated_at |-> ts, error |-> Null]

NoJob == [JobRow(0, <<>>, 0, 0) EXCEPT !.status = "none"]

\* id INTEGER PRIMARY KEY AUTOINCREMENT
NextRowId(jobsv) == IF jobsv = <<>> THEN 1 ELSE SetMax({jobsv[i].id : i \in 1..Len(jobsv)}) + 1

\* UPDATE jobs SET ... WHERE id = ?  (f maps the old row to the new one)
UpdateWhereId(jobsv, id, f(_)) ==
  [i \in 1..Len(jobsv) |-> IF jobsv[i].id = id THEN f(jobsv[i]) ELSE jobsv[i]]

\* addJob with a buggy conflict clause that resets the sync cursors as well
addJobResetCursors(jobsv, channelId, depth, ts) ==
  LET normalizedId == StringOf(normalizeChannelId(channelId))
      target == IF ~IsNull(depth) /\ Val(depth) > 0 THEN Val(depth) ELSE DEFAULT_TARGET_MESSAGES
  IN  IF \E i \in 1..Len(jobsv) : jobsv[i].channel_id = normalizedId
      THEN [i \in 1..Len(jobsv) |->
              IF jobsv[i].channel_id = normalizedId
              THEN JobRow(jobsv[i].id, normalizedId, target, ts)
              ELSE jobsv[i]]
      ELSE Append(jobsv, JobRow(NextRowId(jobsv), normalizedId, target, ts))

\* addJob(channelId, options): INSERT ... ON CONFLICT(channel_id) DO UPDATE
addJob(jobsv, channelId, depth, ts) ==
  LET normalizedId == StringOf(normalizeChannelId(channelId))
      target == IF ~IsNull(depth) /\ Val(depth) > 0 THEN Val(depth) ELSE DEFAULT_TARGET_MESSAGES
  IN  IF \E i \in 1..Len(jobsv) : jobsv[i].channel_id = normalizedId
      THEN [i \in 1..Len(jobsv) |->
              IF jobsv[i].channel_id = normalizedId
              THEN [jobsv[i] EXCEPT !.status = PENDING, !.error = Null,
                                    !.target_message_count = target, !.updated_at = ts]
              ELSE jobsv[i]]
      ELSE Append(jobsv, JobRow(NextRowId(jobsv), normalizedId, target, ts))

\* the row addJob RETURNs
addJobReturning(jobsv, channelId) ==
  LET normalizedId == StringOf(normalizeChannelId(channelId))
  IN  CHOOSE r \in Range(jobsv) : r.channel_id = normalizedId

Waiting(r) == r.status \in {PENDING, IN_PROGRESS}

\* _getNextJob with the ordering reversed (ORDER BY updated_at DESC)
_getNextJobNewestFirst(jobsv) ==
  LET W == {i \in 1..Len(jobsv) : Waiting(jobsv[i])}
  IN  IF W = {} THEN NoJob
      ELSE jobsv[CHOOSE i \in W : \A k \in W :
                   \/ jobsv[i].updated_at > jobsv[k].updated_at
                   \/ jobsv[i].updated_at = jobsv[k].updated_at /\ i <= k]

\* _getNextJob() with WHERE status = pending only
_getNextJobPendingOnly(jobsv) ==
  LET W == {i \in 1..Len(jobsv) : jobsv[i].status = PENDING}
  IN  IF W = {} THEN NoJob
      ELSE jobsv[CHOOSE i \in W : \A k \in W :
                   \/ jobsv[i].updated_at < jobsv[k].updated_at
                   \/ jobsv[i].updated_at = jobsv[k].updated_at /\ i <= k]

\* _getNextJob(): WHERE status IN (pending, in_progress) ORDER BY updated_at ASC
\* LIMIT 1.  updated_at has no index, so SQLite scans in rowid order and sorts
\* stably: among equal updated_at the row with the lowest rowid comes first.
_getNextJob(jobsv) ==
  LET W == {i \in 1..Len(jobsv) : Waiting(jobsv[i])}
  IN  IF W = {} THEN NoJob
      ELSE jobsv[CHOOSE i \in W : \A k \in W :
                   \/ jobsv[i].updated_at < jobsv[k].updated_at
                   \/ jobsv[i].updated_at = jobsv[k].updated_at /\ i <= k]

\* _updateJobStatus(id, status)
_updateJobStatus(jobsv, id, status, ts) ==
  LET f(r) == [r EXCEPT !.status = status, !.updated_at = ts]
  IN  UpdateWhereId(jobsv, id, f)

\* _updateJobRecord(id, {status, lastMessageId, oldestMessageId, messageCount,
\* targetCount}); lastMessageId ?? 0 etc. are applied by the caller's values
_updateJobRecord(jobsv, id, status, lastMessageId, oldestMessageId, messageCount, targetCount, ts) ==
  LET f(r) == [r EXCEPT !.status = status,
                        !.last_message_id = lastMessageId,
                        !.oldest_message_id = oldestMessageId,
                        !.message_count = messageCount,
                        !.target_message_count = targetCount,
                        !.error = Null,
                        !.updated_at = ts]
  IN  UpdateWhereId(jobsv, id, f)

\* _markJobError that leaves the job waiting (status pending)
_markJobErrorAsPending(jobsv, id, message, ts) ==
  LET f(r) == [r EXCEPT !.status = PENDING, !.error = Some(message), !.updated_at = ts]
  IN  UpdateWhereId(jobsv, id, f)

\* _markJobError(id, error)
_markJobError(jobsv, id, message, ts) ==
  LET f(r) == [r EXCEPT !.status = ERROR, !.error = Some(message), !.updated_at = ts]
  IN  UpdateWhereId(jobsv, id, f)

\* A messages row: UNIQUE(channel_id, message_id)
MessageRecord(channel_id, message_id, raw_json) ==
  [channel_id |-> channel_id, message_id |-> message_id, raw_json |-> raw_json]

SameKey(a, b) == a.channel_id = b.channel_id /\ a.message_id = b.message_id

\* the insert statement with INSERT OR REPLACE in place of INSERT OR IGNORE
insertMessageStmtReplace(table, record) ==
  {m \in table : ~SameKey(m, record)} \cup {record}

\* insertMessageStmt.run(record): INSERT OR IGNORE INTO messages
insertMessageStmt(table, record) ==
  IF \E m \in table : SameKey(m, record) THEN table ELSE table \cup {record}

RECURSIVE insertMessagesTx(_, _)
\* insertMessagesTx(records): one transaction running the statement per record
insertMessagesTx(table, records) ==
  IF records = <<>> THEN table
  ELSE insertMessagesTx(insertMessageStmt(table, Head(records)), Tail(records))

\* _countMessages(channelId)
_countMessages(table, channel_id) == Cardinality({m \in table : m.channel_id = channel_id})

\* ---------------------------------------------------- Telegram gateway
\* The account's dialogs: peer 1 has no username, peer 2 has username "a".
Peers == {1, 2}

\* client.resolvePeer(peerRef): the peer's handle, Null when the library throws
resolvePeer(peerRef) ==
  IF peerRef.type = "number" THEN (IF peerRef.num \in Peers THEN Some(peerRef.num) ELSE Null)
  ELSE IF peerRef.chars = <<"a">> THEN Some(2) ELSE Null

\* _serializeMessage(message, peer)
_serializeMessage(peer, id) == [id |-> id, peer_id |-> peer]

\* iterHistory(peer, {limit, reverse: false, minId}): newest first, only ids
\* above minId when minId is given (minId 0 is not passed on), at most limit
iterHistoryNewer(hist, limit, minId) == Take(DescSeq({i \in hist : i > minId}), limit)

\* iterHistory(peer, {limit, reverse: false, offset: {id}}): newest first,
\* starting below the offset message, at most limit
iterHistoryOlder(hist, limit, offsetId) == Take(DescSeq({i \in hist : i < offsetId}), limit)

\* Error messages the gateway can throw: [pre, n, post] stands for pre n post.
WaitOfError(s) == [pre |-> "A wait of ", n |-> s, post |-> " seconds is required"]
FloodCodeError(s) == [pre |-> "FLOOD_WAIT_", n |-> s, post |-> ""]
OtherError == [pre |-> "PEER_ID_INVALID", n |-> 0, post |-> ""]
RateLimitedText(s) == [pre |-> "Rate limited, waiting ", n |-> s, post |-> "s"]
FloodSecs == {1, 2}
GatewayErrors == {WaitOfError(s) : s \in FloodSecs} \cup {FloodCodeError(1)}
                   \cup {OtherError}

\* what ensureLogin() throws
NotLoggedIn == [pre |-> "Not logged in to Telegram. Please restart the server.", n |-> 0,
                post |-> ""]

\* /wait of (\d+) seconds is required/i.exec(error.message): Null or the number
waitMatch(message) ==
  IF message.pre \in {"A wait of ", "wait of ", "a wait of "} /\ message.post = " seconds is required"
  THEN Some(message.n) ELSE Null

\* delay(ms) lasts at least this many whole seconds
DelaySecs(ms) == ms \div 1000

\* ------------------------------------------------------------- the state
VARIABLES
  phase,          \* "starting" (constructed), "running" (serving), "down"
  now,            \* CURRENT_TIMESTAMP, in seconds
  jobs,           \* the jobs table (persisted)
  messages,       \* the messages table (persisted)
  dbOpen,         \* this.db.open
  history,        \* per peer, the message ids Telegram holds
  batchSize,      \* this.batchSize
  processing,     \* this.processing
  stopRequested,  \* this.stopRequested
  loops,          \* the processQueue() invocations that are suspended
  sd,             \* per signal, where its shutdown() invocation stands
  gatewayOpen,    \* FALSE once telegramClient.destroy() was called
  restarts,       \* restarts so far
  authorized,     \* whether client.getMe() succeeds (the Telegram session is valid)
  sessions,       \* the keys of the sessions Map
  transports,     \* per session id that randomUUID() has generated, in the order of
                  \* generation, whether its transport is "open" or "closed"
  reply,          \* the last HTTP response written
  exitCode,       \* the code the process exited with, if it did
  stopAt,         \* not program state: while a shutdown() call made during a
                  \* flood-wait sleep of the worker is waiting for the worker loop,
                  \* the second in which the first such call was made
  dialogs,        \* the ids of the dialogs the Telegram account has (iterDialogs)
  dialogCache,    \* the keys of telegramClient.dialogCache (dialog-cache server)
  calls           \* the executions of the dialog-cache server that are under way:
                  \* slot 0 is initializeDialogCache(), the others getChannelMessages

\* the state of the transport host and of the Telegram account
hostVars == <<authorized, sessions, transports, reply, exitCode, stopAt>>

\* the state of the server that keeps a dialog cache
cacheVars == <<dialogs, dialogCache, calls>>

vars == <<phase, now, jobs, messages, dbOpen, history, batchSize, processing,
          stopRequested, loops, sd, gatewayOpen, restarts, hostVars, cacheVars>>

LoopIds == 1..MaxLoops
Signals == {"SIGINT", "SIGTERM"}

\* ensureLogin(): returns true when getMe() succeeds, throws otherwise
ensureLogin == authorized

\* a processQueue() invocation that is not running
IdleLoop ==
  [pc |-> "none", job |-> NoJob, peer |-> 0,
   lastMessageId |-> 0, oldestMessageId |-> Null, targetCount |-> 0,
   hasMoreNewer |-> FALSE,
   total |-> 0, currentOldest |-> Null, insertedCount |-> 0, nextOffsetId |-> 0,
   wakeAt |-> 0,
   \* not program state: the job this invocation has just left, the status
   \* and updated_at it left it with, and the rows (id, updated_at) that were
   \* waiting at that moment
   doneId |-> 0, doneStatus |-> "none", doneStamp |-> 0, doneWaiting |-> {}]

Running(l) == loops[l].pc # "none"
\* a loop is inside _processJob
InJob(l) == loops[l].pc \in {"newer", "resolve", "hist", "batchDelay", "floodSleep"}
FreeSlots == {l \in LoopIds : ~Running(l)}

\* ------------------------------------------------------ the sync worker
\* The records _syncNewerMessages inserts for the ids it keeps
RecordsOf(channel_id, peer, ids) ==
  [k \in 1..Len(ids) |-> MessageRecord(channel_id, ids[k], _serializeMessage(peer, ids[k]))]

\* _syncNewerMessages(job) returning before insertMessagesTx has run
_syncNewerMessagesNoInsert(job, peer, fetched, table, bsz) ==
  LET minId == job.last_message_id
      newMessages == AscSeq({i \in Range(fetched) : i > minId})
      old == OrNull(job.oldest_message_id)
      table1 == table
  IN  [messages |-> table1,
       lastMessageId |-> IF newMessages # <<>> THEN newMessages[Len(newMessages)]
                         ELSE job.last_message_id,
       oldestMessageId |-> IF newMessages = <<>> THEN old
                           ELSE IF IsNull(old) THEN Some(newMessages[1])
                           ELSE Some(Min2(Val(old), newMessages[1])),
       totalMessages |-> _countMessages(table1, job.channel_id),
       targetCount |-> IF job.target_message_count = 0 THEN DEFAULT_TARGET_MESSAGES
                       ELSE job.target_message_count,
       hasMoreNewer |-> Len(newMessages) >= bsz]

\* _syncNewerMessages(job) with lastMessageId starting from 0, not from
\* job.last_message_id
_syncNewerMessagesFromZero(job, peer, fetched, table, bsz) ==
  LET minId == job.last_message_id
      newMessages == AscSeq({i \in Range(fetched) : i > minId})
      old == OrNull(job.oldest_message_id)
      table1 == IF newMessages # <<>>
                THEN insertMessagesTx(table, RecordsOf(job.channel_id, peer, newMessages))
                ELSE table
  IN  [messages |-> table1,
       lastMessageId |-> IF newMessages # <<>> THEN newMessages[Len(newMessages)] ELSE 0,
       oldestMessageId |-> IF newMessages = <<>> THEN old
                           ELSE IF IsNull(old) THEN Some(newMessages[1])
                           ELSE Some(Min2(Val(old), newMessages[1])),
       totalMessages |-> _countMessages(table1, job.channel_id),
       targetCount |-> IF job.target_message_count = 0 THEN DEFAULT_TARGET_MESSAGES
                       ELSE job.target_message_count,
       hasMoreNewer |-> Len(newMessages) >= bsz]

\* _syncNewerMessages(job) once getMessagesByChannelId has answered with fetched
_syncNewerMessages(job, peer, fetched, table, bsz) ==
  LET minId == job.last_message_id
      newMessages == AscSeq({i \in Range(fetched) : i > minId})
      old == OrNull(job.oldest_message_id)
      table1 == IF newMessages # <<>>
                THEN insertMessagesTx(table, RecordsOf(job.channel_id, peer, newMessages))
                ELSE table
  IN  [messages |-> table1,
       lastMessageId |-> IF newMessages # <<>> THEN newMessages[Len(newMessages)]
                         ELSE job.last_message_id,
       oldestMessageId |-> IF newMessages = <<>> THEN old
                           ELSE IF IsNull(old) THEN Some(newMessages[1])
                           ELSE Some(Min2(Val(old), newMessages[1])),
       totalMessages |-> _countMessages(table1, job.channel_id),
       targetCount |-> IF job.target_message_count = 0 THEN DEFAULT_TARGET_MESSAGES
                       ELSE job.target_message_count,
       hasMoreNewer |-> Len(newMessages) >= bsz]

\* _backfillHistory: the cursor the backward walk starts from
\* (job.oldest_message_id ?? newestMessageId ?? job.last_message_id ?? 0)
backfillOffset(job, newestMessageId) ==
  IF ~IsNull(job.oldest_message_id) THEN Val(job.oldest_message_id) ELSE newestMessageId

\* _backfillHistory: Math.min(this.batchSize, targetCount - total)
chunkLimit(bsz, targetCount, total) == Min2(bsz, targetCount - total)

\* _backfillHistory: currentOldest after the for-await loop over one chunk
chunkOldest(currentOldest, chunk) ==
  IF chunk = <<>> THEN currentOldest
  ELSE IF IsNull(OrNull(currentOldest)) THEN Some(SetMin(Range(chunk)))
  ELSE Some(Min2(Val(currentOldest), SetMin(Range(chunk))))


\* _processJob: backfillResult.oldestMessageId ?? newerDetails.oldestMessageId
\*              ?? job.oldest_message_id
finalOldest(backfillOldest, newerOldest, job) ==
  Coalesce(backfillOldest, Coalesce(newerOldest, job.oldest_message_id))

\* _processJob: shouldContinue ? PENDING : IDLE
finalStatus(hasMoreNewer, hasMoreOlder) == IF hasMoreNewer \/ hasMoreOlder THEN PENDING ELSE IDLE

\* the catch block's UPDATE for a flood wait writing status error
_markJobRateLimitedAsError(jobsv, id, waitSeconds, ts) ==
  LET f(r) == [r EXCEPT !.status = ERROR, !.error = Some(RateLimitedText(waitSeconds)),
                        !.updated_at = ts]
  IN  UpdateWhereId(jobsv, id, f)

\* the catch block's UPDATE for a flood wait
_markJobRateLimited(jobsv, id, waitSeconds, ts) ==
  LET f(r) == [r EXCEPT !.status = PENDING, !.error = Some(RateLimitedText(waitSeconds)),
                        !.updated_at = ts]
  IN  UpdateWhereId(jobsv, id, f)

\* who else is waiting, with the stamp they wait under
WaitingOthers(jobsv, id) ==
  {<<jobsv[i].id, jobsv[i].updated_at>> : i \in {k \in 1..Len(jobsv) : Waiting(jobsv[k]) /\ jobsv[k].id # id}}

\* processQueue() without the finally block: the flag stays set when the loop
\* leaves
LoopTopKeepFlag(l, jobsv, setFlag) ==
  LET job == _getNextJob(jobsv)
  IN  IF stopRequested \/ job.id = 0
      THEN /\ processing' = IF setFlag THEN TRUE ELSE processing
           /\ loops' = [loops EXCEPT ![l] = IdleLoop]
           /\ jobs' = jobsv
      ELSE /\ processing' = IF setFlag THEN TRUE ELSE processing
           /\ jobs' = _updateJobStatus(jobsv, job.id, IN_PROGRESS, now)
           /\ loops' = [loops EXCEPT ![l] = [IdleLoop EXCEPT !.pc = "newer", !.job = job]]

\* processQueue(): one pass of while (true) from its top, run until the loop
\* leaves or suspends in _syncNewerMessages.  setFlag tells whether the pass
\* starts right after this.processing = true.
LoopTop(l, jobsv, setFlag) ==
  LET job == _getNextJob(jobsv)
  IN  IF stopRequested \/ job.id = 0
      THEN /\ processing' = FALSE
           /\ loops' = [loops EXCEPT ![l] = IdleLoop]
           /\ jobs' = jobsv
      ELSE /\ processing' = IF setFlag THEN TRUE ELSE processing
           /\ jobs' = _updateJobStatus(jobsv, job.id, IN_PROGRESS, now)
           /\ loops' = [loops EXCEPT ![l] = [IdleLoop EXCEPT !.pc = "newer", !.job = job]]

\* processQueue() without the reentrancy test on this.processing
processQueueNoGuard(jobsv) ==
  IF stopRequested \/ FreeSlots = {}
  THEN jobs' = jobsv /\ UNCHANGED <<processing, loops>>
  ELSE LoopTop(SetMin(FreeSlots), jobsv, TRUE)

\* processQueue() as called by resumePendingJobs() and scheduleMessageSync
processQueue(jobsv) ==
  IF processing \/ stopRequested \/ FreeSlots = {}
  THEN jobs' = jobsv /\ UNCHANGED <<processing, loops>>
  ELSE LoopTop(SetMin(FreeSlots), jobsv, TRUE)

\* _processJob writing the backfill's running counter as messageCount
FinishJobRunningTotal(l, L, table1, finalCount, backfillOldest, hasMoreOlder) ==
  LET st == finalStatus(L.hasMoreNewer, hasMoreOlder)
  IN  /\ jobs' = _updateJobRecord(jobs, L.job.id, st, L.lastMessageId,
                                  finalOldest(backfillOldest, L.oldestMessageId, L.job),
                                  L.total, L.targetCount, now)
      /\ messages' = table1
      /\ loops' = [loops EXCEPT ![l] =
                     [IdleLoop EXCEPT !.pc = "jobDelay",
                                      !.wakeAt = now + DelaySecs(interJobDelayMs),
                                      !.doneId = L.job.id,
                                      !.doneStatus = st,
                                      !.doneStamp = now,
                                      !.doneWaiting = WaitingOthers(jobs', L.job.id)]]

\* _processJob: the _updateJobRecord call and the return into processQueue,
\* which then awaits delay(interJobDelayMs)
FinishJob(l, L, table1, finalCount, backfillOldest, hasMoreOlder) ==
  LET st == finalStatus(L.hasMoreNewer, hasMoreOlder)
  IN  /\ jobs' = _updateJobRecord(jobs, L.job.id, st, L.lastMessageId,
                                  finalOldest(backfillOldest, L.oldestMessageId, L.job),
                                  finalCount, L.targetCount, now)
      /\ messages' = table1
      /\ loops' = [loops EXCEPT ![l] =
                     [IdleLoop EXCEPT !.pc = "jobDelay",
                                      !.wakeAt = now + DelaySecs(interJobDelayMs),
                                      !.doneId = L.job.id,
                                      !.doneStatus = st,
                                      !.doneStamp = now,
                                      !.doneWaiting = WaitingOthers(jobs', L.job.id)]]

\* _backfillHistory with a loop that tests the counter only and never the offset
BackfillLoopNoOffsetTest(l, L, table1) ==
  IF L.total < L.targetCount
  THEN /\ loops' = [loops EXCEPT ![l] = [L EXCEPT !.pc = "hist"]]
       /\ messages' = table1
       /\ UNCHANGED jobs
  ELSE FinishJob(l, L, table1, _countMessages(table1, L.job.channel_id), L.currentOldest,
                 L.insertedCount > 0 /\ L.total < L.targetCount)

\* _backfillHistory: while (total < targetCount) from its top, until the next
\* history request is in flight or the function returns
BackfillLoop(l, L, table1) ==
  IF L.total < L.targetCount /\ L.nextOffsetId > 1
  THEN /\ loops' = [loops EXCEPT ![l] = [L EXCEPT !.pc = "hist"]]
       /\ messages' = table1
       /\ UNCHANGED jobs
  ELSE FinishJob(l, L, table1, _countMessages(table1, L.job.channel_id), L.currentOldest,
                 L.insertedCount > 0 /\ L.total < L.targetCount)

\* _processJob's catch block
HandleError(l, message) ==
  LET L == loops[l]
      wm == waitMatch(message)
  IN  /\ IF ~IsNull(wm)
         THEN /\ jobs' = _markJobRateLimited(jobs, L.job.id, Val(wm), now)
              /\ loops' = [loops EXCEPT ![l] =
                             [IdleLoop EXCEPT !.pc = "floodSleep", !.wakeAt = now + Val(wm),
                                              !.doneId = L.job.id,
                                              !.doneStatus = PENDING,
                                              !.doneStamp = now,
                                              !.doneWaiting = WaitingOthers(jobs', L.job.id)]]
         ELSE /\ jobs' = _markJobError(jobs, L.job.id, message, now)
              /\ loops' = [loops EXCEPT ![l] =
                             [IdleLoop EXCEPT !.pc = "jobDelay",
                                              !.wakeAt = now + DelaySecs(interJobDelayMs),
                                              !.doneId = L.job.id,
                                              !.doneStatus = ERROR,
                                              !.doneStamp = now,
                                              !.doneWaiting = WaitingOthers(jobs', L.job.id)]]
      /\ UNCHANGED messages

WorkerFrame == UNCHANGED <<phase, now, dbOpen, history, batchSize, processing, stopRequested,
                           sd, gatewayOpen, restarts, hostVars, cacheVars>>

\* getMessagesByChannelId answers: the rest of _syncNewerMessages, then
\* _backfillHistory up to its first await (or its early return)
NewerResponse(l) ==
  LET L == loops[l]
      job == L.job
      peerN == resolvePeer(normalizeChannelId(StringV(job.channel_id)))
  IN  /\ L.pc = "newer"
      /\ IF ~ensureLogin THEN HandleError(l, NotLoggedIn)
         ELSE IF IsNull(peerN) THEN HandleError(l, OtherError)
         ELSE LET peer == Val(peerN)
                  r == _syncNewerMessages(job, peer,
                         iterHistoryNewer(history[peer], batchSize, job.last_message_id),
                         messages, batchSize)
                  L1 == [L EXCEPT !.peer = peer, !.lastMessageId = r.lastMessageId,
                                  !.oldestMessageId = r.oldestMessageId,
                                  !.targetCount = r.targetCount,
                                  !.hasMoreNewer = r.hasMoreNewer,
                                  !.total = r.totalMessages]
              IN  IF r.totalMessages >= r.targetCount
                  THEN FinishJob(l, L1, r.messages, r.totalMessages, job.oldest_message_id, FALSE)
                  ELSE /\ loops' = [loops EXCEPT ![l] = [L1 EXCEPT !.pc = "resolve"]]
                       /\ messages' = r.messages
                       /\ UNCHANGED jobs
      /\ WorkerFrame

\* _backfillHistory: resolvePeer answers; the locals are set and the loop entered
ResolveResponse(l) ==
  LET L == loops[l]
      L1 == [L EXCEPT !.currentOldest = L.job.oldest_message_id,
                      !.insertedCount = 0,
                      !.nextOffsetId = backfillOffset(L.job, L.lastMessageId)]
  IN  /\ L.pc = "resolve"
      /\ authorized
      /\ BackfillLoop(l, L1, messages)
      /\ WorkerFrame

\* _backfillHistory: the for-await loop over one iterHistory call has ended
\* with the messages of chunk; the rest of the loop body up to the next await
HistDelivers(l, chunk) ==
  LET L == loops[l]
      table1 == insertMessagesTx(messages, RecordsOf(L.job.channel_id, L.peer, chunk))
      L1 == [L EXCEPT !.total = L.total + Len(chunk),
                      !.insertedCount = L.insertedCount + Len(chunk),
                      !.nextOffsetId = SetMin(Range(chunk)),
                      !.currentOldest = chunkOldest(L.currentOldest, chunk)]
  IN  /\ L.pc = "hist"
      /\ authorized
      /\ IF chunk = <<>>
         THEN FinishJob(l, L, messages, _countMessages(messages, L.job.channel_id),
                        L.currentOldest, L.insertedCount > 0 /\ L.total < L.targetCount)
         ELSE IF L1.total >= L1.targetCount
         THEN FinishJob(l, L1, table1, _countMessages(table1, L.job.channel_id),
                        L1.currentOldest, FALSE)
         ELSE /\ loops' = [loops EXCEPT ![l] =
                             [L1 EXCEPT !.pc = "batchDelay",
                                        !.wakeAt = now + DelaySecs(interBatchDelayMs)]]
              /\ messages' = table1
              /\ UNCHANGED jobs
      /\ WorkerFrame

\* _backfillHistory: iterHistory has delivered one chunk
HistResponse(l) ==
  HistDelivers(l, iterHistoryOlder(history[loops[l].peer],
                                   chunkLimit(batchSize, loops[l].targetCount, loops[l].total),
                                   loops[l].nextOffsetId))

\* _backfillHistory under a gateway that is bound to nothing but finite
\* chunks: the iterator yields any set of the channel's messages, whatever the
\* limit and the offset it was asked for
HistResponseAny(l) ==
  /\ loops[l].pc = "hist"
  /\ \E S \in SUBSET history[loops[l].peer] : HistDelivers(l, DescSeq(S))

\* _backfillHistory: delay(interBatchDelayMs) is over
BatchWake(l) ==
  /\ loops[l].pc = "batchDelay"
  /\ now >= loops[l].wakeAt
  /\ BackfillLoop(l, [loops[l] EXCEPT !.wakeAt = 0], messages)
  /\ WorkerFrame

\* a gateway call of _processJob throws
GatewayFail(l, message) ==
  /\ loops[l].pc \in {"newer", "resolve", "hist"}
  /\ HandleError(l, message)
  /\ WorkerFrame

\* the catch block's delay(waitSeconds * 1000) is over: _processJob returns
FloodWake(l) ==
  /\ loops[l].pc = "floodSleep"
  /\ now >= loops[l].wakeAt
  /\ loops' = [loops EXCEPT ![l] =
                 [loops[l] EXCEPT !.pc = "jobDelay", !.wakeAt = now + DelaySecs(interJobDelayMs)]]
  /\ UNCHANGED <<jobs, messages>>
  /\ WorkerFrame

\* processQueue: delay(interJobDelayMs) is over, back to the top of the loop
JobWake(l) ==
  /\ loops[l].pc = "jobDelay"
  /\ now >= loops[l].wakeAt
  /\ LoopTop(l, jobs, FALSE)
  /\ UNCHANGED <<phase, now, messages, dbOpen, history, batchSize, stopRequested,
                 sd, gatewayOpen, restarts, hostVars, cacheVars>>

\* -------------------------------------------------------------- the host
\* what scheduleMessageSync callers send as channelId and depth
ChannelInputs == {NumberV(1), StringV(<<"1">>), StringV(<<"a">>)}
Depths == {Null, Some(2)}

\* initializeTelegram() without the test of what login() returned
StartupNoLogin ==
  /\ phase = "starting"
  /\ phase' = "running"
  /\ processQueue(jobs)
  /\ UNCHANGED <<now, messages, dbOpen, history, batchSize, stopRequested, sd, gatewayOpen,
                 restarts, authorized, sessions, transports, reply, exitCode, stopAt,
                 cacheVars>>

\* initializeTelegram(): login() has returned true (the stored session was
\* valid, or the interactive login went through), resumePendingJobs(); the
\* module then creates the HTTP server and listens
Startup ==
  /\ phase = "starting"
  /\ phase' = "running"
  /\ authorized' = TRUE
  /\ processQueue(jobs)
  /\ UNCHANGED <<now, messages, dbOpen, history, batchSize, stopRequested, sd, gatewayOpen,
                 restarts, sessions, transports, reply, exitCode, stopAt, cacheVars>>

\* the scheduleMessageSync tool: addJob, then void processQueue()
ScheduleMessageSync(channelId, depth) ==
  /\ phase = "running"
  /\ dbOpen
  /\ normalizeChannelId(channelId).type # "throw"
  /\ processQueue(addJob(jobs, channelId, depth, now))
  /\ UNCHANGED <<phase, now, messages, dbOpen, history, batchSize, stopRequested, sd,
                 gatewayOpen, restarts, hostVars, cacheVars>>

\* MessageSyncService.shutdown() closing at once, without the polling loop
shutdownMayCloseAtOnce == TRUE

\* MessageSyncService.shutdown(): while (this.processing) await delay(100)
shutdownMayClose == ~processing

\* SIGINT / SIGTERM: shutdown() up to its first suspension
Signal(s) ==
  /\ phase = "running"
  /\ sd[s] = "none"
  /\ stopRequested' = TRUE
  /\ stopAt' = IF IsNull(stopAt) /\ \E l \in LoopIds : loops[l].pc = "floodSleep"
                THEN Some(now) ELSE stopAt
  /\ IF shutdownMayClose
     THEN dbOpen' = FALSE /\ sd' = [sd EXCEPT ![s] = "closed"]
     ELSE UNCHANGED dbOpen /\ sd' = [sd EXCEPT ![s] = "poll"]
  /\ UNCHANGED <<phase, now, jobs, messages, history, batchSize, processing, loops,
                 gatewayOpen, restarts, authorized, sessions, transports, reply, exitCode,
                 cacheVars>>

\* MessageSyncService.shutdown(): a poll finds the worker loop gone, closes the db
Poll(s) ==
  /\ sd[s] = "poll"
  /\ shutdownMayClose
  /\ dbOpen' = FALSE
  /\ sd' = [sd EXCEPT ![s] = "closed"]
  /\ stopAt' = Null
  /\ UNCHANGED <<phase, now, jobs, messages, history, batchSize, processing, stopRequested,
                 loops, gatewayOpen, restarts, authorized, sessions, transports, reply,
                 exitCode, cacheVars>>

\* shutdown(): messageSyncService.shutdown() has returned, telegramClient.destroy()
Destroy(s) ==
  /\ sd[s] = "closed"
  /\ gatewayOpen' = FALSE
  /\ sd' = [sd EXCEPT ![s] = "destroy"]
  /\ UNCHANGED <<phase, now, jobs, messages, dbOpen, history, batchSize, processing,
                 stopRequested, loops, restarts, hostVars, cacheVars>>

\* the process is gone: what lived in memory is lost, the database file stays
ProcessGone(code) ==
  /\ phase' = "down"
  /\ sessions' = {}
  /\ transports' = [id \in 1..Len(transports) |-> "closed"]
  /\ exitCode' = code
  /\ stopAt' = Null
  /\ processing' = FALSE
  /\ stopRequested' = FALSE
  /\ loops' = [l \in LoopIds |-> IdleLoop]
  /\ sd' = [s \in Signals |-> "none"]
  /\ dbOpen' = FALSE
  /\ gatewayOpen' = FALSE
  /\ UNCHANGED <<now, jobs, messages, history, batchSize, restarts, authorized, reply, cacheVars>>

\* shutdown().finally(() => process.exit(0))
Exit(s) ==
  /\ sd[s] = "destroy"
  /\ ProcessGone(Some(0))

\* initializeTelegram() rejects (login() returned false, initializeDialogCache
\* threw): the catch handler calls process.exit(1)
StartupFail ==
  /\ phase = "starting"
  /\ ~authorized
  /\ ProcessGone(Some(1))

\* the process is killed or crashes at a suspension point
Crash ==
  /\ phase # "down"
  /\ ProcessGone(Null)

\* the server is started again: the constructor runs on the existing database
Restart ==
  /\ phase = "down"
  /\ restarts < MaxRestarts
  /\ phase' = "starting"
  /\ dbOpen' = TRUE
  /\ gatewayOpen' = TRUE
  /\ restarts' = restarts + 1
  /\ exitCode' = Null
  /\ UNCHANGED <<now, jobs, messages, history, batchSize, processing, stopRequested, loops,
                 sd, authorized, sessions, transports, reply, stopAt, cacheVars>>

\* a second passes
Tick ==
  /\ now < MaxClock
  /\ now' = now + 1
  /\ UNCHANGED <<phase, jobs, messages, dbOpen, history, batchSize, processing,
                 stopRequested, loops, sd, gatewayOpen, restarts, hostVars, cacheVars>>

Sleeping(l) == loops[l].pc \in {"batchDelay", "floodSleep", "jobDelay"}

\* a second of a sleep of the worker passes
SleepTick ==
  /\ now < MaxSleepClock
  /\ \E l \in LoopIds : Sleeping(l) /\ now < loops[l].wakeAt
  /\ now' = now + 1
  /\ UNCHANGED <<phase, jobs, messages, dbOpen, history, batchSize, processing,
                 stopRequested, loops, sd, gatewayOpen, restarts, hostVars, cacheVars>>

\* a new message is posted in a channel
NewMessage(p) ==
  /\ Cardinality(history[p]) < MaxMsgId
  /\ history' = [history EXCEPT ![p] = history[p] \cup {Cardinality(history[p]) + 1}]
  /\ UNCHANGED <<phase, now, jobs, messages, dbOpen, batchSize, processing,
                 stopRequested, loops, sd, gatewayOpen, restarts, hostVars, cacheVars>>

\* ------------------------------------------------------ the HTTP sessions
\* what a request carries as mcp-session-id: nothing, or an id, which may be
\* one that was never issued
Headers == {Null} \cup {Some(i) : i \in 1..MaxSessions + 1}
\* the JSON-RPC method of a POST body
Bodies == {"initialize", "tools/list"}
SessionMethods == {"GET", "DELETE"}

isInitializeRequest(body) == body = "initialize"

\* res.writeHead(status).end({jsonrpc, error: {code}, id: null}) by the host
ErrorReply(method, status, code) ==
  Some([method |-> method, by |-> "host", status |-> status, code |-> code, session |-> Null,
        tool |-> "none", isError |-> FALSE, data |-> Null])

\* the request was handed to the transport of session id, which answers it
TransportReply(method, id) ==
  Some([method |-> method, by |-> "transport", status |-> 0, code |-> 0, session |-> Some(id),
        tool |-> "none", isError |-> FALSE, data |-> Null])

\* the http server is listening: created after initializeTelegram(), closed
\* by shutdown()
\* how many session ids have been generated
issued == Len(transports)

Listening == phase = "running" /\ \A s \in Signals : sd[s] = "none"

\* onsessioninitialized: sessions.set(sessionId, record)
onsessioninitialized(table, sessionId) == table \cup {sessionId}

\* onsessionclosed: sessions.delete(sessionId)
onsessionclosed(table, sessionId) == table \ {sessionId}

\* transport.onclose leaving the table as it is
oncloseKeep(table, sessionId) == table

\* transport.onclose: sessions.delete(record.sessionId)
onclose(table, sessionId) == table \ {sessionId}

\* ensureSession answering an unknown session id like a missing one
ensureSessionUnknownAsMissing(table, header, body) ==
  IF ~IsNull(header) /\ Val(header) \in table
  THEN [record |-> header, create |-> FALSE, reply |-> Null]
  ELSE IF ~isInitializeRequest(body)
  THEN [record |-> Null, create |-> FALSE, reply |-> ErrorReply("POST", 400, -32000)]
  ELSE [record |-> Null, create |-> TRUE, reply |-> Null]

\* ensureSession(req, res, body): the record it returns (an existing one, or
\* a new one to create) or the error it answers
ensureSession(table, header, body) ==
  IF ~IsNull(header)
  THEN IF Val(header) \in table
       THEN [record |-> header, create |-> FALSE, reply |-> Null]
       ELSE [record |-> Null, create |-> FALSE, reply |-> ErrorReply("POST", 404, -32001)]
  ELSE IF ~isInitializeRequest(body)
  THEN [record |-> Null, create |-> FALSE, reply |-> ErrorReply("POST", 400, -32000)]
  ELSE [record |-> Null, create |-> TRUE, reply |-> Null]

HostFrame == UNCHANGED <<phase, now, jobs, messages, dbOpen, history, batchSize, processing,
                         stopRequested, loops, sd, gatewayOpen, restarts, authorized,
                         exitCode, stopAt, cacheVars>>

\* handlePost: ensureSession, then transport.handleRequest; for a new record
\* the transport generates the session id and calls onsessioninitialized
HandlePost(header, body) ==
  LET r == ensureSession(sessions, header, body)
  IN  /\ Listening
      /\ IF ~IsNull(r.reply)
         THEN reply' = r.reply /\ UNCHANGED <<sessions, transports>>
         ELSE IF r.create
         THEN /\ issued < MaxSessions
              /\ transports' = Append(transports, "open")
              /\ sessions' = onsessioninitialized(sessions, issued + 1)
              /\ reply' = TransportReply("POST", issued + 1)
         ELSE /\ reply' = TransportReply("POST", Val(r.record))
              /\ UNCHANGED <<sessions, transports>>
      /\ HostFrame

\* handleSessionRequest (GET and DELETE /mcp); on DELETE the transport calls
\* onsessionclosed and closes, which calls transport.onclose
HandleSessionRequest(method, header) ==
  /\ Listening
  /\ IF IsNull(header)
     THEN reply' = ErrorReply(method, 400, -32000) /\ UNCHANGED <<sessions, transports>>
     ELSE IF Val(header) \notin sessions
     THEN reply' = ErrorReply(method, 404, -32001) /\ UNCHANGED <<sessions, transports>>
     ELSE /\ reply' = TransportReply(method, Val(header))
          /\ IF method = "DELETE"
             THEN /\ sessions' = onclose(onsessionclosed(sessions, Val(header)), Val(header))
                  /\ transports' = [transports EXCEPT ![Val(header)] = "closed"]
             ELSE UNCHANGED <<sessions, transports>>
  /\ HostFrame

\* the transport of a session that was issued closes (again, if it was closed)
TransportClose(id) ==
  /\ phase = "running"
  /\ id \in 1..issued
  /\ sessions' = onclose(sessions, id)
  /\ transports' = [transports EXCEPT ![id] = "closed"]
  /\ UNCHANGED reply
  /\ HostFrame

\* ------------------------------------------------------------ the tools
\* a tool handler returned: the result the session's transport sends
ToolResult(id, tool, data) ==
  Some([method |-> "POST", by |-> "tool", status |-> 0, code |-> 0, session |-> Some(id),
        tool |-> tool, isError |-> FALSE, data |-> Some(data)])

\* a tool handler threw: the result has isError set and carries the message only
ToolError(id, tool) ==
  Some([method |-> "POST", by |-> "tool", status |-> 0, code |-> 0, session |-> Some(id),
        tool |-> tool, isError |-> TRUE, data |-> Null])

\* listJobs(): the rows of the jobs table, of which the columns id, channel_id
\* and status are followed (the other columns and the order are left aside)
listJobs(jobsv) ==
  {[id |-> r.id, channel_id |-> r.channel_id, status |-> r.status] : r \in Range(jobsv)}

\* the listMessageSyncJobs handler: messageSyncService.listJobs()
listMessageSyncJobsResult(id) == ToolResult(id, "listMessageSyncJobs", listJobs(jobs))

\* a tool call that leaves everything but the response as it is
ReadOnlyCall(id, result) ==
  /\ Listening
  /\ id \in sessions
  /\ reply' = result
  /\ UNCHANGED <<sessions, transports>>
  /\ HostFrame

\* tools/call listChannels: ensureLogin(), listDialogs()
ListChannels(id) ==
  ReadOnlyCall(id, IF ensureLogin THEN ToolResult(id, "listChannels", Peers)
                   ELSE ToolError(id, "listChannels"))

\* tools/call searchChannels with keywords "a": ensureLogin(), searchDialogs()
SearchChannels(id) ==
  ReadOnlyCall(id, IF ensureLogin
                   THEN ToolResult(id, "searchChannels",
                                   {p \in Peers : resolvePeer(StringV(<<"a">>)) = Some(p)})
                   ELSE ToolError(id, "searchChannels"))

\* tools/call getChannelMessages: ensureLogin(), getMessagesByChannelId(channelId, 100)
GetChannelMessages(id, channelId) ==
  LET peerN == resolvePeer(normalizeChannelId(channelId))
  IN  ReadOnlyCall(id, IF ensureLogin /\ ~IsNull(peerN)
                       THEN ToolResult(id, "getChannelMessages",
                                       iterHistoryNewer(history[Val(peerN)], 100, 0))
                       ELSE ToolError(id, "getChannelMessages"))

\* tools/call listMessageSyncJobs
ListMessageSyncJobs(id) == ReadOnlyCall(id, listMessageSyncJobsResult(id))

\* tools/call scheduleMessageSync with its response: ensureLogin(), addJob,
\* void processQueue(), the job row as the result
ScheduleMessageSyncCall(id, channelId, depth) ==
  /\ Listening
  /\ id \in sessions
  /\ IF ensureLogin /\ dbOpen /\ normalizeChannelId(channelId).type # "throw"
     THEN /\ processQueue(addJob(jobs, channelId, depth, now))
          /\ reply' = ToolResult(id, "scheduleMessageSync",
                                 addJobReturning(addJob(jobs, channelId, depth, now), channelId))
     ELSE /\ reply' = ToolError(id, "scheduleMessageSync")
          /\ UNCHANGED <<jobs, processing, loops>>
  /\ UNCHANGED <<phase, now, messages, dbOpen, history, batchSize, stopRequested, sd,
                 gatewayOpen, restarts, authorized, sessions, transports, exitCode, stopAt,
                 cacheVars>>

\* the Telegram session is revoked: getMe() fails from now on
Unauthorize ==
  /\ authorized
  /\ authorized' = FALSE
  /\ UNCHANGED <<phase, now, jobs, messages, dbOpen, history, batchSize, processing,
                 stopRequested, loops, sd, gatewayOpen, restarts, sessions, transports, reply,
                 exitCode, stopAt, cacheVars>>

\* ------------------------------------------- the dialog-cache server
\* mcp-server.js with the telegram-client.js that keeps a Map of the account's
\* dialogs: initializeDialogCache() fills it before the server starts, and
\* getMessagesByChannelId refreshes it when a channel is not found in it.
CallIds == 0..MaxCalls
ToolCallIds == 1..MaxCalls

\* what callers send as limit: nothing, 2
LimitInputs == {Null, Some(2)}

\* what callers send as filterPattern: nothing, a valid pattern, an invalid one
Filters == {Null, Some("a"), Some("(")}

\* new RegExp(pattern) returns for "a" and throws a SyntaxError for "("
RegExpValid(pattern) == pattern # "("

\* regex.test(text) for the pattern "a": the text contains the letter a
RegExpTest(pattern, text) == \E i \in 1..Len(text) : text[i] = pattern

\* the text of the message with a given id: "a" for odd ids, "b" for 2, empty for the rest
TextOf(id) == IF id % 2 = 1 THEN <<"a">> ELSE IF id = 2 THEN <<"b">> ELSE <<>>

\* formatted.filter((msg) => msg.text && regex.test(msg.text))
FilterByPattern(msgs, pattern) ==
  SelectSeq(msgs, LAMBDA id : TextOf(id) # <<>> /\ RegExpTest(pattern, TextOf(id)))

\* a call slot that is free
NoCall ==
  [pc |-> "none", channelId |-> 0, limit |-> 0, filter |-> Null, todo |-> <<>>,
   refreshes |-> 0, out |-> Null]

\* what a tool call returns or throws
CallResult(msgs, returned) ==
  Some([isError |-> FALSE, message |-> "none", totalFetched |-> Len(msgs), returned |-> returned])
CallError(message) ==
  Some([isError |-> TRUE, message |-> message, totalFetched |-> 0, returned |-> <<>>])

\* a lookup that never finds the entry
cacheHasNever(cache, channelId) == FALSE

\* this.dialogCache.get(String(channelId)) is truthy
cacheHas(cache, channelId) == channelId \in cache

CacheFrame == UNCHANGED <<phase, now, jobs, messages, dbOpen, history, batchSize, processing,
                          stopRequested, loops, sd, gatewayOpen, restarts, hostVars>>

\* _refreshDialogCache() up to its first await: the Map is cleared and the
\* iteration over the account's dialogs begins
RefreshBegin(k, call) ==
  /\ dialogCache' = {}
  /\ calls' = [calls EXCEPT ![k] = [call EXCEPT !.pc = "refresh", !.todo = AscSeq(dialogs),
                                                !.refreshes = call.refreshes + 1]]

\* mcp-server.js at start: initializeDialogCache(), login() has returned true
CacheStartup ==
  /\ calls[0].pc = "none"
  /\ authorized
  /\ RefreshBegin(0, NoCall)
  /\ UNCHANGED dialogs
  /\ CacheFrame

\* getChannelMessages: ensureLogin() has answered; getMessagesByChannelId looks
\* the channel up and, on a miss, starts a refresh
CallStart(k, channelId, limit, filter) ==
  LET call == [NoCall EXCEPT !.channelId = channelId, !.limit = limit, !.filter = filter]
  IN  /\ calls[0].pc = "done"
      /\ calls[k].pc \in {"none", "done"}
      /\ IF ~ensureLogin
         THEN /\ calls' = [calls EXCEPT ![k] = [call EXCEPT !.pc = "done",
                                                            !.out = CallError("NotLoggedIn")]]
              /\ UNCHANGED dialogCache
         ELSE IF cacheHas(dialogCache, channelId)
         THEN /\ calls' = [calls EXCEPT ![k] = [call EXCEPT !.pc = "history"]]
              /\ UNCHANGED dialogCache
         ELSE RefreshBegin(k, call)
      /\ UNCHANGED dialogs
      /\ CacheFrame

\* _refreshDialogCache(): the iterator delivers the next dialog
RefreshStep(k) ==
  /\ calls[k].pc = "refresh"
  /\ calls[k].todo # <<>>
  /\ dialogCache' = dialogCache \cup {Head(calls[k].todo)}
  /\ calls' = [calls EXCEPT ![k].todo = Tail(calls[k].todo)]
  /\ UNCHANGED dialogs
  /\ CacheFrame

\* _refreshDialogCache() returns: the server is started (slot 0), or
\* getMessagesByChannelId looks the channel up a second time
RefreshEnd(k) ==
  /\ calls[k].pc = "refresh"
  /\ calls[k].todo = <<>>
  /\ calls' = [calls EXCEPT ![k] =
                 IF k = 0 \/ ~cacheHas(dialogCache, calls[k].channelId)
                 THEN [calls[k] EXCEPT !.pc = "done",
                                       !.out = IF k = 0 THEN Null ELSE CallError("NotFound")]
                 ELSE [calls[k] EXCEPT !.pc = "history"]]
  /\ UNCHANGED <<dialogs, dialogCache>>
  /\ CacheFrame

\* mcp-server.js getChannelMessages: the filter block.  A pattern that does
\* not compile is caught, a note is added to the text and the messages are
\* returned unfiltered
cacheServerFilter(msgs, filter) ==
  IF IsNull(filter) THEN CallResult(msgs, msgs)
  ELSE IF RegExpValid(Val(filter)) THEN CallResult(msgs, FilterByPattern(msgs, Val(filter)))
  ELSE Some([isError |-> FALSE, message |-> "Failed to apply filter",
             totalFetched |-> Len(msgs), returned |-> msgs])

\* the HTTP host's getChannelMessages: the filter block.  A pattern that does
\* not compile makes the handler throw "Invalid filterPattern: ..."
hostFilter(msgs, filter) ==
  IF IsNull(filter) THEN CallResult(msgs, msgs)
  ELSE IF RegExpValid(Val(filter)) THEN CallResult(msgs, FilterByPattern(msgs, Val(filter)))
  ELSE CallError("Invalid filterPattern")

\* args.limit || 100
limitOrDefault(limit) == IF IsNull(limit) \/ Val(limit) = 0 THEN 100 ELSE Val(limit)

\* getMessagesByChannelId returns the messages: the tool looks the channel up
\* once more (no refresh), formats, filters and returns
HistoryDone(k) ==
  LET call == calls[k]
      msgs == iterHistoryNewer(history[call.channelId], limitOrDefault(call.limit), 0)
  IN  /\ call.pc = "history"
      /\ calls' = [calls EXCEPT ![k] =
                     [call EXCEPT !.pc = "done",
                                  !.out = IF cacheHas(dialogCache, call.channelId)
                                          THEN cacheServerFilter(msgs, call.filter)
                                          ELSE CallError("NotFound")]]
      /\ UNCHANGED <<dialogs, dialogCache>>
      /\ CacheFrame

\* the account joins a chat: iterDialogs yields one more dialog from now on
NewDialog(p) ==
  /\ p \notin dialogs
  /\ dialogs' = dialogs \cup {p}
  /\ UNCHANGED <<dialogCache, calls>>
  /\ CacheFrame

\* limit ?? 100 in the handler, then limit && limit > 0 ? limit : 100 in
\* getMessagesByChannelId
hostLimit(limit) ==
  LET n == IF IsNull(limit) THEN 100 ELSE Val(limit)
  IN  IF n > 0 THEN n ELSE 100

\* tools/call getChannelMessages of the HTTP host with limit and filterPattern:
\* ensureLogin(), getMessagesByChannelId(channelId, limit ?? 100), the filter
GetChannelMessagesWith(id, channelId, limit, filterPattern) ==
  LET peerN == resolvePeer(normalizeChannelId(channelId))
      msgs == iterHistoryNewer(history[Val(peerN)], hostLimit(limit), 0)
      r == hostFilter(msgs, filterPattern)
  IN  ReadOnlyCall(id, IF ensureLogin /\ ~IsNull(peerN) /\ ~Val(r).isError
                       THEN ToolResult(id, "getChannelMessages", Val(r))
                       ELSE ToolError(id, "getChannelMessages"))

\* ---------------------------------------------------- the specifications
\* the state the constructor leaves on a fresh database
InitService ==
  /\ phase = "starting"
  /\ now = 0
  /\ jobs = <<>>
  /\ messages = {}
  /\ dbOpen = TRUE
  /\ processing = FALSE
  /\ stopRequested = FALSE
  /\ loops = [l \in LoopIds |-> IdleLoop]
  /\ sd = [s \in Signals |-> "none"]
  /\ gatewayOpen = TRUE
  /\ restarts = 0
  /\ sessions = {}
  /\ transports = <<>>
  /\ reply = Null
  /\ exitCode = Null
  /\ stopAt = Null
  /\ dialogs = {1}
  /\ dialogCache = {}
  /\ calls = [k \in CallIds |-> NoCall]

\* The server as deployed (batchSize: 100), with a channel that holds
\* messages 1..MaxMsgId (peer 1) and an empty one (peer 2).
Init ==
  /\ InitService
  /\ authorized = TRUE
  /\ history = [p \in Peers |-> IF p = 1 THEN 1..MaxMsgId ELSE {}]
  /\ batchSize = deployedBatchSize

Worker ==
  \/ \E l \in LoopIds : NewerResponse(l)
  \/ \E l \in LoopIds : ResolveResponse(l)
  \/ \E l \in LoopIds : HistResponse(l)
  \/ \E l \in LoopIds : BatchWake(l)
  \/ \E l \in LoopIds : JobWake(l)

\* Spec: the job queue under concurrent tool calls of every input form, with a
\* gateway that always answers.
Next ==
  \/ Startup
  \/ \E c \in ChannelInputs, d \in Depths : ScheduleMessageSync(c, d)
  \/ Worker
  \/ Tick

Spec == Init /\ [][Next]_vars

\* The other specifications of the deployed server schedule two channels with
\* the default depth.
LifeInputs == {NumberV(1), StringV(<<"a">>)}
LifeDepth == Null

\* SpecFault: the job queue with gateway calls that may fail.
NextFault ==
  \/ Startup
  \/ \E c \in LifeInputs : ScheduleMessageSync(c, LifeDepth)
  \/ Worker
  \/ \E l \in LoopIds, m \in GatewayErrors : GatewayFail(l, m)
  \/ \E l \in LoopIds : FloodWake(l)
  \/ Tick

SpecFault == Init /\ [][NextFault]_vars

\* SpecShutdown: the job queue with SIGINT / SIGTERM arriving at any moment.
NextShutdown ==
  \/ Startup
  \/ \E c \in LifeInputs : ScheduleMessageSync(c, LifeDepth)
  \/ Worker
  \/ \E s \in Signals : Signal(s)
  \/ \E s \in Signals : Poll(s)
  \/ \E s \in Signals : Destroy(s)
  \/ \E s \in Signals : Exit(s)
  \/ Tick

SpecShutdown == Init /\ [][NextShutdown]_vars

\* SpecFloodStop: one channel, gateway calls that may fail with a flood wait,
\* and SIGINT / SIGTERM arriving at any moment.
NextFloodStop ==
  \/ Startup
  \/ ScheduleMessageSync(NumberV(1), LifeDepth)
  \/ Worker
  \/ \E l \in LoopIds, s \in FloodSecs : GatewayFail(l, WaitOfError(s))
  \/ \E l \in LoopIds : FloodWake(l)
  \/ \E s \in Signals : Signal(s)
  \/ \E s \in Signals : Poll(s)
  \/ \E s \in Signals : Destroy(s)
  \/ \E s \in Signals : Exit(s)
  \/ Tick

SpecFloodStop == Init /\ [][NextFloodStop]_vars

\* SpecCrash: the job queue with the process killed at any suspension point
\* and started again on the database it left.
NextCrash ==
  \/ Startup
  \/ \E c \in LifeInputs : ScheduleMessageSync(c, LifeDepth)
  \/ Worker
  \/ Crash
  \/ Restart
  \/ Tick

SpecCrash == Init /\ [][NextCrash]_vars

\* SpecSync: one channel with a static history 1..n, every batch size and
\* depth, and a gateway that always answers.
InitSync ==
  /\ InitService
  /\ authorized = TRUE
  /\ \E n \in 0..MaxMsgId : history = [p \in Peers |-> IF p = 1 THEN 1..n ELSE {}]
  /\ batchSize \in 1..MaxBatch

NextSync ==
  \/ Startup
  \/ \E d \in 1..MaxMsgId : ScheduleMessageSync(NumberV(1), Some(d))
  \/ Worker
  \/ SleepTick

SpecSync == InitSync /\ [][NextSync]_vars

\* SpecGrow: SpecSync with messages arriving while the worker runs.
NextGrow == NextSync \/ NewMessage(1)

SpecGrow == InitSync /\ [][NextGrow]_vars

\* SpecArchive: the messages table under arbitrary insertMessagesTx calls.
ArchiveRecords ==
  {MessageRecord(c, i, v) : c \in {<<"1">>, <<"a">>}, i \in 1..3, v \in {"v1", "v2"}}

RecordBatches == UNION {[1..n -> ArchiveRecords] : n \in 1..MaxBatchLen}

InsertBatch(records) ==
  /\ messages' = insertMessagesTx(messages, records)
  /\ UNCHANGED <<phase, now, jobs, dbOpen, history, batchSize, processing, stopRequested,
                 loops, sd, gatewayOpen, restarts, hostVars, cacheVars>>

NextArchive == \E records \in RecordBatches : InsertBatch(records)

SpecArchive == Init /\ [][NextArchive]_vars

\* SpecOnce: SpecSync with a single scheduleMessageSync call, after which the
\* worker runs alone.
NextOnce ==
  \/ Startup
  \/ jobs = <<>> /\ \E d \in 1..MaxMsgId : ScheduleMessageSync(NumberV(1), Some(d))
  \/ Worker
  \/ SleepTick

SpecOnce == InitSync /\ [][NextOnce]_vars

\* SpecDeep: SpecOnce over longer histories, larger batches and deeper
\* targets: one channel with a static history 1..n, one scheduleMessageSync
\* call, a gateway that always answers.
InitDeep ==
  /\ InitService
  /\ authorized = TRUE
  /\ \E n \in 0..DeepMsgId : history = [p \in Peers |-> IF p = 1 THEN 1..n ELSE {}]
  /\ batchSize \in 1..DeepBatch

NextDeep ==
  \/ Startup
  \/ jobs = <<>> /\ \E d \in 1..DeepMsgId : ScheduleMessageSync(NumberV(1), Some(d))
  \/ Worker
  \/ SleepTick

SpecDeep == InitDeep /\ [][NextDeep]_vars

\* SpecGateway: SpecOnce with the backfill's history requests answered by a
\* gateway that may deliver any finite chunk.
NextGateway ==
  \/ Startup
  \/ jobs = <<>> /\ \E d \in 1..MaxMsgId : ScheduleMessageSync(NumberV(1), Some(d))
  \/ \E l \in LoopIds : NewerResponse(l)
  \/ \E l \in LoopIds : ResolveResponse(l)
  \/ \E l \in LoopIds : HistResponseAny(l)
  \/ \E l \in LoopIds : BatchWake(l)
  \/ \E l \in LoopIds : JobWake(l)
  \/ SleepTick

SpecGateway == InitSync /\ [][NextGateway]_vars

\* SpecTools: one session calling the five tools while the worker runs, and
\* the Telegram session being revoked at any moment.
NextTools ==
  \/ Startup
  \/ sessions = {} /\ HandlePost(Null, "initialize")
  \/ \E id \in 1..MaxSessions : ListChannels(id)
  \/ \E id \in 1..MaxSessions : SearchChannels(id)
  \/ \E id \in 1..MaxSessions : GetChannelMessages(id, NumberV(1))
  \/ \E id \in 1..MaxSessions : ListMessageSyncJobs(id)
  \/ \E id \in 1..MaxSessions : ScheduleMessageSyncCall(id, NumberV(1), LifeDepth)
  \/ Worker
  \/ \E l \in LoopIds : GatewayFail(l, OtherError)
  \/ Unauthorize
  \/ SleepTick

SpecTools == Init /\ [][NextTools]_vars

\* SpecWriters: one session calling the five tools on two channels while the
\* worker runs, with a gateway that always answers.
NextWriters ==
  \/ Startup
  \/ sessions = {} /\ HandlePost(Null, "initialize")
  \/ \E id \in 1..MaxSessions : ListChannels(id)
  \/ \E id \in 1..MaxSessions : SearchChannels(id)
  \/ \E id \in 1..MaxSessions : GetChannelMessages(id, NumberV(1))
  \/ \E id \in 1..MaxSessions : ListMessageSyncJobs(id)
  \/ \E id \in 1..MaxSessions, c \in LifeInputs : ScheduleMessageSyncCall(id, c, LifeDepth)
  \/ Worker
  \/ SleepTick

SpecWriters == Init /\ [][NextWriters]_vars

\* SpecStartup: the server started with or without a valid Telegram session,
\* killed and started again, with one client scheduling and listing jobs.
InitStartup ==
  /\ InitService
  /\ authorized \in BOOLEAN
  /\ history = [p \in Peers |-> IF p = 1 THEN 1..MaxMsgId ELSE {}]
  /\ batchSize = deployedBatchSize

NextStartup ==
  \/ Startup
  \/ StartupFail
  \/ sessions = {} /\ HandlePost(Null, "initialize")
  \/ \E id \in 1..MaxSessions : ScheduleMessageSyncCall(id, NumberV(1), LifeDepth)
  \/ \E id \in 1..MaxSessions : ListMessageSyncJobs(id)
  \/ Worker
  \/ Unauthorize
  \/ Crash
  \/ Restart
  \/ SleepTick

SpecStartup == InitStartup /\ [][NextStartup]_vars

\* both getChannelMessages handlers with limits and filter patterns over every
\* history of chat 1: the HTTP host with one session, the dialog-cache server
\* with one call at a time
InitFilter ==
  /\ InitService
  /\ authorized = TRUE
  /\ history \in {[p \in Peers |-> IF p = 1 THEN h ELSE {}] : h \in SUBSET (1..MaxMsgId)}
  /\ batchSize = deployedBatchSize
NextFilter ==
  \/ Startup
  \/ (sessions = {} /\ HandlePost(Null, "initialize"))
  \/ \E id \in 1..MaxSessions, l \in LimitInputs, f \in Filters :
        GetChannelMessagesWith(id, NumberV(1), l, f)
  \/ CacheStartup
  \/ RefreshStep(0)
  \/ RefreshEnd(0)
  \/ \E l \in LimitInputs, f \in Filters : CallStart(1, 1, l, f)
  \/ HistoryDone(1)
  \/ Unauthorize
SpecFilter == InitFilter /\ [][NextFilter]_vars

\* SpecForms: the channel with id 2 and username "a", holding messages
\* 1..MaxMsgId, scheduled by its id as a number, by its id as a string and by
\* its username.
ChannelForms == {NumberV(2), StringV(<<"2">>), StringV(<<"a">>)}

InitForms ==
  /\ InitService
  /\ authorized = TRUE
  /\ history = [p \in Peers |-> IF p = 2 THEN 1..MaxMsgId ELSE {}]
  /\ batchSize = deployedBatchSize

NextForms ==
  \/ Startup
  \/ \E c \in ChannelForms : ScheduleMessageSync(c, LifeDepth)
  \/ Worker
  \/ SleepTick

SpecForms == InitForms /\ [][NextForms]_vars

\* SpecCodec: normalizeChannelId applied to integers and to every string of
\* up to MaxChars characters over letters of both cases, a digit, "@", "-"
\* and the blank.
CodecChars == {"a", "A", "1", "@", "-", " "}

CodecStrings == UNION {[1..n -> CodecChars] : n \in 0..MaxChars}

CodecInputs ==
  {NumberV(n) : n \in (0 - MaxMsgId)..MaxMsgId} \cup {StringV(cs) : cs \in CodecStrings}

\* a caller applies the exported function and is handed its result
CodecCall(channelId) ==
  /\ reply' = Some([input |-> channelId, output |-> normalizeChannelId(channelId)])
  /\ UNCHANGED <<phase, now, jobs, messages, dbOpen, history, batchSize, processing,
                 stopRequested, loops, sd, gatewayOpen, restarts, authorized, sessions,
                 transports, exitCode, stopAt, cacheVars>>

NextCodec == \E c \in CodecInputs : CodecCall(c)

SpecCodec == Init /\ [][NextCodec]_vars

\* SpecInvalid: one session calling scheduleMessageSync and getChannelMessages
\* with strings that are no peer identifier (they pass the tool's schema, a
\* string of at least one character): a blank, and digits mixed with a letter.
\* Of the worker, the steps a job for such a channel can take: its first
\* request fails, so the backfill is never entered.
InvalidInputs == {StringV(<<" ">>), StringV(<<"1", "a">>)}

NextInvalid ==
  \/ Startup
  \/ sessions = {} /\ HandlePost(Null, "initialize")
  \/ \E id \in 1..MaxSessions, c \in InvalidInputs : ScheduleMessageSyncCall(id, c, LifeDepth)
  \/ \E id \in 1..MaxSessions, c \in InvalidInputs : GetChannelMessages(id, c)
  \/ \E l \in LoopIds : NewerResponse(l)
  \/ \E l \in LoopIds : JobWake(l)
  \/ SleepTick

SpecInvalid == Init /\ [][NextInvalid]_vars

\* SpecCache: the dialog-cache server from its start, with getChannelMessages
\* calls overlapping and the account joining a second chat.
ChannelIds == {1, 2, 3}

NextCache ==
  \/ CacheStartup
  \/ \E k \in ToolCallIds, c \in ChannelIds : CallStart(k, c, Null, Null)
  \/ \E k \in CallIds : RefreshStep(k)
  \/ \E k \in CallIds : RefreshEnd(k)
  \/ \E k \in ToolCallIds : HistoryDone(k)
  \/ NewDialog(2)
  \/ Unauthorize

SpecCache == Init /\ [][NextCache]_vars

\* SpecSession: the /mcp endpoint under POST, GET and DELETE requests with
\* every header, and transports closing.
NextSession ==
  \/ Startup
  \/ \E h \in Headers, b \in Bodies : HandlePost(h, b)
  \/ \E m \in SessionMethods, h \in Headers : HandleSessionRequest(m, h)
  \/ \E id \in 1..MaxSessions : TransportClose(id)

SpecSession == Init /\ [][NextSession]_vars

\* ---------------------------------------------------------------------------
\* Claims

JobRowOf(id) == CHOOSE r \in Range(jobs) : r.id = id

\* C1: whatever the interleaving of the startup resume and of
\* scheduleMessageSync calls, at most one invocation of the processQueue loop
\* is running and at most one _processJob is active; the processing flag is set
\* exactly while that loop runs, so a call made meanwhile starts no second loop.
C1_SingleWorkerLoop ==
  /\ Cardinality({l \in LoopIds : Running(l)}) <= 1
  /\ Cardinality({l \in LoopIds : InJob(l)}) <= 1
  /\ processing = (\E l \in LoopIds : Running(l))

\* a scheduleMessageSync call on the restarted server found the loop that the
\* startup resume had started still inside a job: its row waits, no loop started
C1_Witness ==
  /\ restarts = 1
  /\ \E l \in LoopIds :
       /\ InJob(l)
       /\ \E r \in Range(jobs) :
            r.id # loops[l].job.id /\ r.status = PENDING /\ r.created_at = r.updated_at
                                   /\ r.created_at >= JobRowOf(loops[l].job.id).updated_at

\* C2: at most one sync_jobs row has status in_progress, in every state of
\* the table, across crashes and restarts.
C2_AtMostOneInProgress ==
  Cardinality({i \in 1..Len(jobs) : jobs[i].status = IN_PROGRESS}) <= 1

\* C3: a job that has come to rest in status idle on a channel whose history
\* holds at least target_message_count messages has archived that many.
C3_IdleMeansTargetReached ==
  \A r \in Range(jobs) :
    (r.status = IDLE /\ Cardinality(history[1]) >= r.target_message_count)
      => r.message_count >= r.target_message_count

\* a step in which loop l leaves _processJob through _updateJobRecord
Completes(l) ==
  /\ loops[l].pc \in {"newer", "resolve", "hist", "batchDelay"}
  /\ loops'[l].pc = "jobDelay"
  /\ loops'[l].doneStatus \in {PENDING, IDLE}

\* C4: no step lowers a row's last_message_id, and a row's oldest_message_id,
\* once set, stays set and never rises; in particular a _processJob run that
\* completes without error leaves last_message_id no lower, and a non-null
\* oldest_message_id no higher, than the row held when the run began.
C4_CursorsMonotonic ==
  [][/\ \A i \in 1..Len(jobs) :
          /\ i <= Len(jobs')
          /\ jobs'[i].id = jobs[i].id
          /\ jobs'[i].last_message_id >= jobs[i].last_message_id
          /\ ~IsNull(jobs[i].oldest_message_id)
               => /\ ~IsNull(jobs'[i].oldest_message_id)
                  /\ Val(jobs'[i].oldest_message_id) <= Val(jobs[i].oldest_message_id)
     /\ \A l \in LoopIds :
          Completes(l)
            => LET before == loops[l].job
                   after == CHOOSE r \in Range(jobs') : r.id = before.id
               IN  /\ after.last_message_id >= before.last_message_id
                   /\ ~IsNull(before.oldest_message_id)
                        => /\ ~IsNull(after.oldest_message_id)
                           /\ Val(after.oldest_message_id) <= Val(before.oldest_message_id)
    ]_vars

\* a later run of a job whose row holds both cursors has archived messages
\* newer than the row's last_message_id and goes on to walk backwards
C4_Witness ==
  \E l \in LoopIds :
    /\ loops[l].pc \in {"resolve", "hist", "batchDelay"}
    /\ loops[l].job.last_message_id > 0
    /\ ~IsNull(loops[l].job.oldest_message_id)
    /\ loops[l].lastMessageId > loops[l].job.last_message_id

\* a step in which loop l takes a job at the top of the processQueue loop
Picks(l) == loops[l].pc \in {"none", "jobDelay"} /\ loops'[l].pc = "newer"

\* the row of the job that loop l has just left, before and after the step
DoneRow(l) == CHOOSE r \in Range(jobs) : r.id = loops[l].doneId
DoneRowNext(l) == CHOOSE r \in Range(jobs') : r.id = loops[l].doneId

\* C5: when a gateway call of _processJob fails with "A wait of s seconds is
\* required", the row becomes pending (not error) with the error text
\* "Rate limited, waiting <s>s" and the worker sleeps s seconds; during the
\* sleep and on its end the job is not re-entered (the loop goes to the
\* inter-job delay); at the next top of the loop, with no new
\* scheduleMessageSync, the loop does not stop while the job waits: it picks
\* that job or one that has waited at least as long; and a run that then
\* completes clears the error.
C5_FloodWait ==
  [][\A l \in LoopIds :
       /\ \A s \in FloodSecs :
            GatewayFail(l, WaitOfError(s))
              => LET r == CHOOSE x \in Range(jobs') : x.id = loops[l].job.id
                 IN  /\ r.status = PENDING
                     /\ r.error = Some(RateLimitedText(s))
                     /\ loops'[l].pc = "floodSleep"
                     /\ loops'[l].wakeAt = now + s
       /\ loops[l].pc = "floodSleep"
            => /\ loops'[l].pc \in {"floodSleep", "jobDelay"}
               /\ loops'[l].pc = "jobDelay" => now >= loops[l].wakeAt
               /\ DoneRowNext(l).status = PENDING
       /\ ( /\ loops[l].pc = "jobDelay" /\ loops'[l].pc # "jobDelay"
            /\ loops[l].doneStatus = PENDING
            /\ DoneRow(l).status = PENDING
            /\ ~stopRequested )
            => /\ loops'[l].pc = "newer"
               /\ \/ loops'[l].job.id = loops[l].doneId
                  \/ loops'[l].job.updated_at <= DoneRow(l).updated_at
       /\ Completes(l)
            => IsNull((CHOOSE x \in Range(jobs') : x.id = loops[l].job.id).error)
    ]_vars

\* the worker has picked again, with no scheduleMessageSync in between, a job
\* whose row still carried the rate-limit text when it was read
C5_Witness ==
  \E l \in LoopIds :
    /\ loops[l].pc = "newer"
    /\ loops[l].job.status = PENDING
    /\ loops[l].job.error = Some(RateLimitedText(1))

\* C6: when a gateway call of _processJob fails with an error that is not a
\* flood wait, the row becomes error with the error's message and the loop
\* stays alive (it goes to the inter-job delay, processing still set); at the
\* next top of the loop it picks another waiting job if there is one; the
\* worker never picks a row in status error; and a row in status error changes
\* only by a scheduleMessageSync on its channel, which makes it pending (or
\* in_progress, when that call's processQueue picks it at once) with error
\* cleared.
C6_OtherError ==
  [][/\ \A l \in LoopIds :
          /\ GatewayFail(l, OtherError)
               => LET r == CHOOSE x \in Range(jobs') : x.id = loops[l].job.id
                  IN  /\ r.status = ERROR
                      /\ r.error = Some(OtherError)
                      /\ loops'[l].pc = "jobDelay"
                      /\ processing'
          /\ Picks(l) => loops'[l].job.status \in {PENDING, IN_PROGRESS}
          /\ ( /\ loops[l].pc = "jobDelay" /\ loops'[l].pc # "jobDelay"
               /\ loops[l].doneStatus = ERROR
               /\ DoneRow(l).status = ERROR
               /\ \E r \in Range(jobs) : Waiting(r)
               /\ ~stopRequested )
               => /\ loops'[l].pc = "newer"
                  /\ loops'[l].job.id # loops[l].doneId
     /\ \A i \in 1..Len(jobs) :
          jobs[i].status = ERROR
            => \/ jobs'[i] = jobs[i]
               \/ /\ \E c \in ChannelInputs, d \in Depths :
                       /\ ScheduleMessageSync(c, d)
                       /\ StringOf(normalizeChannelId(c)) = jobs[i].channel_id
                  /\ jobs'[i].status \in {PENDING, IN_PROGRESS}
                  /\ IsNull(jobs'[i].error)
    ]_vars

\* after a job failed, the loop has picked another job, one that was already
\* waiting when the failure was recorded; the failed row still says error
C6_Witness ==
  \E l \in LoopIds :
    /\ loops[l].pc = "newer"
    /\ \E r \in Range(jobs) :
         /\ r.id # loops[l].job.id
         /\ r.status = ERROR
         /\ r.error = Some(OtherError)
         /\ loops[l].job.updated_at < r.updated_at

\* C7: shutdown() sets stopRequested and closes the database only when no
\* worker loop is running: while the database is closed no loop is inside a
\* job and no step changes the jobs or the messages table; from the step that
\* sets stopRequested on, no row is newly marked in_progress, whoever calls
\* processQueue; and the Telegram client is destroyed only once the database
\* is closed and the worker loop is gone.
C7_ShutdownOrder ==
  [][/\ ~dbOpen' => \A l \in LoopIds : loops'[l].pc = "none"
     /\ ~dbOpen => UNCHANGED <<jobs, messages>>
     /\ (stopRequested \/ stopRequested')
          => \A i \in 1..Len(jobs') :
               jobs'[i].status = IN_PROGRESS
                 => i <= Len(jobs) /\ jobs'[i] = jobs[i]
     /\ (phase' = "running" /\ ~gatewayOpen')
          => ~dbOpen' /\ ~processing' /\ stopRequested'
    ]_vars

\* a signal arrived while the worker was inside a job; its shutdown() polled,
\* the job ran to its end, and the database is closed now
C7_Witness ==
  /\ phase = "running"
  /\ ~dbOpen
  /\ \E s \in Signals : sd[s] = "poll"
  /\ \E r \in Range(jobs) : r.status = IDLE

\* loop l, back at the top after its delay, takes again the job it has just
\* left pending
PicksSameAgain(l) ==
  /\ loops[l].pc = "jobDelay"
  /\ loops[l].doneStatus = PENDING
  /\ Picks(l)
  /\ loops'[l].job.id = loops[l].doneId

\* the row (id, stamp) that waited when the job was left is still waiting
\* under the same stamp
StillWaiting(w) ==
  \E r \in Range(jobs') : r.id = w[1] /\ Waiting(r) /\ r.updated_at = w[2]

\* every pick takes a waiting row, and no other waiting row is strictly older
PickIsOldest(l) ==
  Picks(l)
    => /\ Waiting(loops'[l].job)
       /\ \A r \in Range(jobs') :
            (r.id # loops'[l].job.id /\ Waiting(r))
              => r.updated_at >= loops'[l].job.updated_at

\* C8 as stated: every pick takes a waiting row than which no other waiting
\* row is strictly older, and a job just processed and left pending goes
\* behind every other waiting job: it is not picked again while a job that
\* was waiting when it was left still waits.
C8_OrderingAsStated ==
  [][\A l \in LoopIds :
       /\ PickIsOldest(l)
       /\ PicksSameAgain(l) => \A w \in loops[l].doneWaiting : ~StillWaiting(w)
    ]_vars

\* C8: every pick takes a waiting row than which no other waiting row is
\* strictly older; a job just processed and left pending goes behind every
\* other waiting job whose updated_at is strictly older than the stamp it was
\* left with (among rows stamped in the same second the lowest row id goes
\* first, which can be the job just processed).
C8_Ordering ==
  [][\A l \in LoopIds :
       /\ PickIsOldest(l)
       /\ PicksSameAgain(l)
            => \A w \in loops[l].doneWaiting :
                 w[2] < loops[l].doneStamp => ~StillWaiting(w)
    ]_vars

\* the loop has picked the older of two waiting jobs: the other one was
\* processed before, left pending, and now waits behind it
C8_Witness ==
  \E l \in LoopIds :
    /\ loops[l].pc = "newer"
    /\ \E r \in Range(jobs) :
         /\ r.id # loops[l].job.id
         /\ r.status = PENDING
         /\ r.message_count > 0
         /\ loops[l].job.updated_at < r.updated_at
         /\ r.updated_at < JobRowOf(loops[l].job.id).updated_at

\* what addJob must do to a table: one row per normalized channel id after
\* it; an existing row of the channel becomes pending with error cleared and
\* the given target (DEFAULT_TARGET_MESSAGES without a depth), keeping id,
\* cursors, count and created_at; every other row is left as it was
UpsertFrame(before, channelId, depth) ==
  LET after == addJob(before, channelId, depth, now)
      key == StringOf(normalizeChannelId(channelId))
      target == IF IsNull(depth) THEN DEFAULT_TARGET_MESSAGES ELSE Val(depth)
  IN  /\ Cardinality({i \in 1..Len(after) : after[i].channel_id = key}) = 1
      /\ Len(after) >= Len(before)
      /\ \A i \in 1..Len(before) :
           IF before[i].channel_id = key
           THEN /\ Len(after) = Len(before)
                /\ after[i].status = PENDING
                /\ IsNull(after[i].error)
                /\ after[i].target_message_count = target
                /\ after[i].id = before[i].id
                /\ after[i].channel_id = before[i].channel_id
                /\ after[i].last_message_id = before[i].last_message_id
                /\ after[i].oldest_message_id = before[i].oldest_message_id
                /\ after[i].message_count = before[i].message_count
                /\ after[i].created_at = before[i].created_at
           ELSE after[i] = before[i]

\* C9: the jobs table holds one row per normalized channel id, and in every
\* state the table can be in, an addJob call for any channel and depth keeps
\* it so: a channel that has a row gets that row set to pending, error
\* cleared, target set (1000 without a depth), with id, last_message_id,
\* oldest_message_id, message_count and created_at unchanged, and every other
\* row unchanged.
C9_UpsertJob ==
  /\ \A i, j \in 1..Len(jobs) : jobs[i].channel_id = jobs[j].channel_id => i = j
  /\ \A c \in ChannelInputs, d \in Depths : UpsertFrame(jobs, c, d)

\* two channels have rows; one of them was synced to its target and then
\* scheduled again: it is pending with its cursors and count as they were
C9_Witness ==
  /\ Len(jobs) = 2
  /\ \E r \in Range(jobs) :
       /\ r.status = PENDING
       /\ r.target_message_count = 2
       /\ r.message_count >= 2
       /\ r.last_message_id > 0
       /\ ~IsNull(r.oldest_message_id)
       /\ IsNull(r.error)

\* the keys (channel_id, message_id) of a batch that the table does not hold
NewKeys(table, records, channel_id) ==
  {records[k].message_id : k \in {k \in 1..Len(records) :
      /\ records[k].channel_id = channel_id
      /\ ~\E m \in table : SameKey(m, records[k])}}

\* C10: in every state of the messages table and for every batch handed to
\* insertMessagesTx, whatever mix of new and already-present keys and
\* whatever content it carries: every stored row is still there with the
\* content it was first inserted with, no key is stored twice, the count of a
\* channel grows by the number of distinct new keys only (so a batch of
\* already-present records changes nothing), and inserting the same batch a
\* second time leaves the table identical.
C10_ArchiveIdempotent ==
  \A records \in RecordBatches :
    LET after == insertMessagesTx(messages, records)
    IN  /\ messages \subseteq after
        /\ \A m, n \in after : SameKey(m, n) => m = n
        /\ \A c \in {<<"1">>, <<"a">>} :
             _countMessages(after, c)
               = _countMessages(messages, c) + Cardinality(NewKeys(messages, records, c))
        /\ (\A k \in 1..Len(records) : \E m \in messages : SameKey(m, records[k]))
             => after = messages
        /\ insertMessagesTx(after, records) = after

\* the table holds rows of one channel with different contents, so batches
\* meet stored rows whose content differs from what they carry
C10_Witness ==
  \E m, n \in messages :
    /\ m.channel_id = n.channel_id
    /\ m.message_id # n.message_id
    /\ m.raw_json = "v1"
    /\ n.raw_json = "v2"

\* C11: after a stop or a crash the restarted server resumes by itself: the
\* startup step, with no scheduleMessageSync call, starts the worker loop on
\* the oldest row that the table shows as pending or in_progress and marks it
\* in_progress; while the server runs and a row is pending or in_progress the
\* loop is alive, so every such row gets its turn; and no step, a crash, a
\* restart and the re-run of an interrupted job included, removes a stored
\* message or stores a (channel_id, message_id) key twice.
C11_ResumeAfterRestart ==
  /\ [][/\ (Startup /\ \E r \in Range(jobs) : Waiting(r))
             => \E l \in LoopIds :
                  /\ loops'[l].pc = "newer"
                  /\ Waiting(loops'[l].job)
                  /\ loops'[l].job \in Range(jobs)
                  /\ \A r \in Range(jobs) :
                       Waiting(r) => r.updated_at >= loops'[l].job.updated_at
                  /\ (CHOOSE r \in Range(jobs') : r.id = loops'[l].job.id).status = IN_PROGRESS
        /\ messages \subseteq messages'
       ]_vars
  /\ []((phase = "running" /\ \E r \in Range(jobs) : Waiting(r))
          => processing /\ \E l \in LoopIds : Running(l))
  /\ [](\A m, n \in messages : SameKey(m, n) => m = n)

\* the restarted server, on startup, has picked the row that the killed
\* process left in_progress, and the messages archived before are in the table
C11_Witness ==
  /\ restarts = 1
  /\ phase = "running"
  /\ messages # {}
  /\ \E l \in LoopIds :
       /\ loops[l].pc = "newer"
       /\ loops[l].job.status = IN_PROGRESS
       /\ loops[l].job.message_count = 0
       /\ _countMessages(messages, loops[l].job.channel_id) > 0

\* C12: a POST /mcp whose mcp-session-id is not in the session table is
\* answered by the host with JSON-RPC error -32001 (HTTP 404), whatever its
\* body, and a POST without the header whose body is not an initialize
\* request with -32000 (HTTP 400); in both cases no session id is issued and
\* the session table is unchanged.
C12_SessionBind ==
  [][\A h \in Headers, b \in Bodies :
       HandlePost(h, b)
         => /\ (~IsNull(h) /\ Val(h) \notin sessions)
                 => /\ ~IsNull(reply')
                    /\ Val(reply').method = "POST"
                    /\ Val(reply').by = "host"
                    /\ Val(reply').status = 404
                    /\ Val(reply').code = -32001
                    /\ sessions' = sessions
                    /\ issued' = issued
            /\ (IsNull(h) /\ ~isInitializeRequest(b))
                 => /\ ~IsNull(reply')
                    /\ Val(reply').method = "POST"
                    /\ Val(reply').by = "host"
                    /\ Val(reply').status = 400
                    /\ Val(reply').code = -32000
                    /\ sessions' = sessions
                    /\ issued' = issued
    ]_vars

\* with one session open and another one deleted, a POST was answered -32001
C12_Witness ==
  /\ sessions # {}
  /\ issued > Cardinality(sessions)
  /\ ~IsNull(reply)
  /\ Val(reply).method = "POST"
  /\ Val(reply).code = -32001

\* C13: in every state the session table holds exactly the ids whose
\* initialize request was accepted and whose transport has not closed since
\* (by a DELETE or otherwise); a session id enters the table only in the step
\* that accepts an initialize request (a POST without the header), and it is
\* the id newly issued in that step; it leaves the table only by a DELETE bearing it or by
\* the close of its transport, and never comes back; every POST, GET or
\* DELETE bearing an id that was issued and is no longer in the table is
\* answered -32001 and changes nothing; closing the transport of a session
\* that is not in the table changes nothing; and a DELETE or a transport
\* close removes that one id and leaves every other session in the table.
C13_SessionLifecycle ==
  /\ [](sessions = {id \in 1..issued : transports[id] = "open"})
  /\ [][/\ \A id \in sessions' \ sessions :
             /\ HandlePost(Null, "initialize")
             /\ id = issued + 1
             /\ issued' = id
             /\ sessions' = sessions \cup {id}
             /\ reply' = TransportReply("POST", id)
        /\ \A id \in sessions \ sessions' :
             /\ HandleSessionRequest("DELETE", Some(id)) \/ TransportClose(id)
             /\ sessions' = sessions \ {id}
        /\ sessions' \subseteq 1..issued'
        /\ \A id \in (1..issued) \ sessions :
             /\ id \notin sessions'
             /\ \A b \in Bodies :
                  HandlePost(Some(id), b)
                    => Val(reply').code = -32001 /\ sessions' = sessions
             /\ \A m \in SessionMethods :
                  HandleSessionRequest(m, Some(id))
                    => Val(reply').code = -32001 /\ sessions' = sessions
             /\ TransportClose(id) => sessions' = sessions
        /\ \A id \in sessions :
             /\ HandleSessionRequest("DELETE", Some(id)) => sessions' = sessions \ {id}
             /\ TransportClose(id) => sessions' = sessions \ {id}
             /\ \A b \in Bodies : HandlePost(Some(id), b) => sessions' = sessions
             /\ HandleSessionRequest("GET", Some(id)) => sessions' = sessions
       ]_vars

\* of three sessions one is still open; a DELETE bearing an id that had been
\* closed before was answered -32001
C13_Witness ==
  /\ issued = 3
  /\ Cardinality(sessions) = 1
  /\ ~IsNull(reply)
  /\ Val(reply).method = "DELETE"
  /\ Val(reply).code = -32001

\* C14: on a channel whose history is 1..N, after one scheduleMessageSync with
\* depth d, 1 <= d <= N, whatever the batch size, a job that has come to rest
\* (status idle) has message_count = d, last_message_id = N and
\* oldest_message_id = N - d + 1.
C14_DepthReached ==
  \A r \in Range(jobs) :
    LET N == Cardinality(history[1])
        d == r.target_message_count
    IN  (r.status = IDLE /\ 1 <= d /\ d <= N)
          => /\ r.message_count = d
             /\ r.last_message_id = N
             /\ r.oldest_message_id = Some(N - d + 1)

\* C15: a gateway error of _processJob whose message is "FLOOD_WAIT_<n>" or
\* "A wait of <n> seconds is required" is handled as a flood wait of n
\* seconds: in both forms the row becomes pending, not error, with the error
\* text "Rate limited, waiting <n>s", and the worker sleeps.
C15_FloodClassification ==
  [][\A l \in LoopIds, m \in GatewayErrors :
       (GatewayFail(l, m) /\ m # OtherError)
         => LET r == CHOOSE x \in Range(jobs') : x.id = loops[l].job.id
            IN  /\ r.status = PENDING
                /\ r.error = Some(RateLimitedText(m.n))
                /\ loops'[l].pc = "floodSleep"
    ]_vars

\* C16: once shutdown() has been requested, the worker issues no further
\* history request, for the job it is processing or for any other: no loop
\* goes on to a getMessagesByChannelId call or to a backfill chunk request
\* that was not already in flight.
C16_NoRequestAfterShutdown ==
  [][stopRequested
       => \A l \in LoopIds :
            loops'[l].pc \in {"newer", "hist"} => loops'[l].pc = loops[l].pc
    ]_vars

\* C17: when shutdown() is requested while the worker is in a flood-wait
\* sleep, the worker loop exits within one batch delay: no later than that the
\* loop is no longer in a sleep whose end lies ahead.  (The clock counts whole
\* seconds: a difference of d means that more than d - 1 seconds have passed.)
C17_FloodSleepInterruptible ==
  ~IsNull(stopAt)
    => \A l \in LoopIds :
         (Sleeping(l) /\ now < loops[l].wakeAt)
           => now - Val(stopAt) <= DelaySecs(interBatchDelayMs) + 1

\* a step of the Sync Worker: a gateway answer inside _processJob,
\* the end of a delay, or the startup resume
WorkerStep ==
  \/ Worker
  \/ Startup

\* a call of one of the four tools other than scheduleMessageSync
OtherToolCall ==
  \E id \in 1..MaxSessions :
    \/ ListChannels(id)
    \/ SearchChannels(id)
    \/ GetChannelMessages(id, NumberV(1))
    \/ ListMessageSyncJobs(id)

\* C18 as stated: every change of the jobs or the messages table is made by
\* a step of the Sync Worker, and no tool call changes any row.
C18_ToolsOnlyReadAsStated ==
  [][/\ (jobs' # jobs \/ messages' # messages) => WorkerStep
     /\ OtherToolCall => UNCHANGED <<jobs, messages>>
     /\ \A id \in 1..MaxSessions, c \in LifeInputs :
          ScheduleMessageSyncCall(id, c, LifeDepth) => UNCHANGED <<jobs, messages>>
    ]_vars

\* C18: every change of the messages table is made by a step of the Sync
\* Worker, and every change of the jobs table by a step of the Sync Worker or
\* by a scheduleMessageSync call; the other four tools change no row; a
\* scheduleMessageSync call changes no message, no row of another channel
\* beyond the in_progress mark that the worker loop it starts puts on the
\* oldest waiting row, and in the row of its own channel it leaves id,
\* last_message_id, oldest_message_id, message_count and created_at alone.
C18_SingleWriter ==
  [][/\ messages' # messages => WorkerStep
     /\ jobs' # jobs
          => \/ WorkerStep
             \/ \E id \in 1..MaxSessions, c \in LifeInputs :
                  ScheduleMessageSyncCall(id, c, LifeDepth)
     /\ OtherToolCall => UNCHANGED <<jobs, messages>>
     /\ \A id \in 1..MaxSessions, c \in LifeInputs :
          ScheduleMessageSyncCall(id, c, LifeDepth)
            => /\ messages' = messages
               /\ \A i \in 1..Len(jobs) :
                    /\ jobs'[i].id = jobs[i].id
                    /\ jobs'[i].channel_id = jobs[i].channel_id
                    /\ jobs'[i].last_message_id = jobs[i].last_message_id
                    /\ jobs'[i].oldest_message_id = jobs[i].oldest_message_id
                    /\ jobs'[i].message_count = jobs[i].message_count
                    /\ jobs'[i].created_at = jobs[i].created_at
                    /\ jobs[i].channel_id # StringOf(normalizeChannelId(c))
                         => \/ jobs'[i] = jobs[i]
                            \/ /\ ~processing
                               /\ Waiting(jobs[i])
                               /\ jobs'[i] = [jobs[i] EXCEPT !.status = IN_PROGRESS,
                                                             !.updated_at = now]
    ]_vars

\* a scheduleMessageSync call has returned the row of a channel that the
\* worker had synced before: the row is pending again, written by the tool
\* handler, with the count and cursors the worker left in it
C18_Witness ==
  /\ ~IsNull(reply)
  /\ Val(reply).tool = "scheduleMessageSync"
  /\ ~Val(reply).isError
  /\ \E r \in Range(jobs) :
       /\ Val(reply).data = Some(r)
       /\ r.status = PENDING
       /\ r.message_count > 0
       /\ r.last_message_id > 0

\* a call of one of the five tools by the session id
ToolCall(id) ==
  \/ ListChannels(id)
  \/ SearchChannels(id)
  \/ GetChannelMessages(id, NumberV(1))
  \/ ListMessageSyncJobs(id)
  \/ ScheduleMessageSyncCall(id, NumberV(1), LifeDepth)

\* C19: a call of any of the five tools made while the gateway is
\* unauthorized ends in a tool error, returns no data and changes no state:
\* the jobs, the messages, the worker and the sessions are as before.
C19_AuthorizationFirst ==
  [][\A id \in 1..MaxSessions :
       (~authorized /\ ToolCall(id))
         => /\ ~IsNull(reply')
            /\ Val(reply').by = "tool"
            /\ Val(reply').isError
            /\ IsNull(Val(reply').data)
            /\ UNCHANGED <<jobs, messages, processing, loops, sessions, transports>>
    ]_vars

\* C20: while the process is starting no worker loop runs, no session exists
\* and nothing is served or written; the worker loop is started and the
\* endpoint answers only in the running phase, which is entered only from the
\* starting phase with the login succeeded; a process leaves the starting
\* phase otherwise only by going down, with exit code 1 unless it was killed,
\* and an exit with code 1 happens only in the starting phase, with no loop
\* started, no row changed and no response sent.
C20_StartupOrdering ==
  /\ [](phase # "running"
          => /\ ~processing
             /\ \A l \in LoopIds : loops[l] = IdleLoop
             /\ sessions = {})
  /\ [][/\ (phase' = "running" /\ phase # "running") => (phase = "starting" /\ authorized')
        /\ (processing' /\ ~processing) => (phase' = "running" /\ authorized')
        /\ reply' # reply => (phase = "running" /\ phase' = "running")
        /\ (phase = "starting" /\ phase' # "running")
             => /\ UNCHANGED <<jobs, messages, reply, loops, processing, sessions>>
                /\ phase' = "down" => exitCode' \in {Some(1), Null}
        /\ (exitCode' = Some(1) /\ exitCode # Some(1))
             => /\ phase = "starting"
                /\ ~authorized
                /\ UNCHANGED <<jobs, messages, reply, loops, processing, sessions>>
       ]_vars

\* a restart on a database with a waiting job failed to log in: the process
\* has exited with code 1 and the job is as the killed process left it
C20_Witness ==
  /\ phase = "down"
  /\ exitCode = Some(1)
  /\ restarts > 0
  /\ \E r \in Range(jobs) : Waiting(r)

\* one status edge of the job life cycle: pending -> in_progress,
\* in_progress -> idle | pending | error, any status -> pending
StatusEdge(a, b) ==
  \/ a = b
  \/ b = PENDING
  \/ a = PENDING /\ b = IN_PROGRESS
  \/ a = IN_PROGRESS /\ b \in {IDLE, ERROR}

\* every row of the table before has kept its status or followed one edge
EdgesOnly(before, after) ==
  \A i \in 1..Len(before) : StatusEdge(before[i].status, after[i].status)

\* C21: every change of a job's status follows one of the edges
\* pending -> in_progress, in_progress -> idle | pending | error and
\* any status -> pending.  (A scheduleMessageSync call runs two statements in
\* one step, the upsert and the pick of the loop it starts: each is held to
\* the edges.)
C21_StatusTransitions ==
  [][IF \E c \in LifeInputs : ScheduleMessageSync(c, LifeDepth)
     THEN \E c \in LifeInputs :
            /\ ScheduleMessageSync(c, LifeDepth)
            /\ EdgesOnly(jobs, addJob(jobs, c, LifeDepth, now))
            /\ EdgesOnly(addJob(jobs, c, LifeDepth, now), jobs')
     ELSE EdgesOnly(jobs, jobs')
    ]_vars

\* the channel_id strings under which a caller's forms of channel 2 are stored
FormKeys == {StringOf(normalizeChannelId(c)) : c \in ChannelForms}

\* C22: however channel 2 is named by its callers (2, "2", or its username
\* "a"), the jobs table holds at most one row for it and its messages are
\* archived under a single channel_id.
C22_OneJobPerChannel ==
  /\ Cardinality({i \in 1..Len(jobs) : jobs[i].channel_id \in FormKeys}) <= 1
  /\ Cardinality({m.channel_id : m \in {x \in messages : x.raw_json.peer_id = 2}}) <= 1

\* C23: in every state the number of archived message rows of a channel is
\* at most the target_message_count of the channel's job.
C23_DepthIsMaximum ==
  \A r \in Range(jobs) : _countMessages(messages, r.channel_id) <= r.target_message_count

\* the worker loop l sends a history request in this step: a
\* getMessagesByChannelId call of _syncNewerMessages or an iterHistory chunk
\* of _backfillHistory goes in flight
SendsHistoryRequest(l) ==
  /\ loops'[l].pc \in {"newer", "hist"}
  /\ loops'[l].pc # loops[l].pc

\* C24: the worker sleeps between any two consecutive history requests: a
\* history request is sent only by a loop that has just been started or by
\* the step that ends one of its sleeps (inter-batch delay, or inter-job delay,
\* which also follows every flood-wait sleep), never straight after the answer
\* to an earlier request.
C24_RequestPacing ==
  [][\A l \in LoopIds :
       SendsHistoryRequest(l)
         => \/ loops[l].pc = "none"
            \/ loops[l].pc \in {"batchDelay", "jobDelay"} /\ now >= loops[l].wakeAt
    ]_vars

\* a Telegram username: a letter followed by letters and digits
IsLetter(c) == c \in {"a", "A"}
IsUsername(cs) ==
  /\ cs # <<>>
  /\ IsLetter(cs[1])
  /\ \A i \in 1..Len(cs) : IsLetter(cs[i]) \/ IsDigit(cs[i])

\* the lowercase form of a string
LowerCase(cs) == [i \in 1..Len(cs) |-> IF cs[i] = "A" THEN "a" ELSE cs[i]]

\* a string without its leading @, if it has one
StripAt(cs) == IF cs # <<>> /\ cs[1] = "@" THEN Tail(cs) ELSE cs

\* C25: for every integer n the codec maps the string of n to what it maps n
\* to; for every username u it maps "@" + u to what it maps u to; and it maps
\* a username, with or without the leading @, to the lowercase username
\* without the @.
C25_CodecRoundTrip ==
  ~IsNull(reply)
    => LET in == Val(reply).input
           out == Val(reply).output
       IN  /\ in.type = "number"
                => normalizeChannelId(StringV(IntToChars(in.num))) = out
           /\ (in.type = "string" /\ IsUsername(in.chars))
                => /\ normalizeChannelId(StringV(<<"@">> \o in.chars)) = out
                   /\ out = StringV(LowerCase(in.chars))
           /\ (in.type = "string" /\ IsUsername(StripAt(in.chars)))
                => out = StringV(LowerCase(StripAt(in.chars)))

\* C26: the codec rejects a blank string and a string mixing digits with
\* other characters, every time, and nothing is done for such an input: a
\* scheduleMessageSync or getChannelMessages call with it ends in a tool error
\* with no data, makes no job row and starts no worker loop.
C26_InvalidPeerRejected ==
  [][\A id \in 1..MaxSessions, c \in InvalidInputs :
       (ScheduleMessageSyncCall(id, c, LifeDepth) \/ GetChannelMessages(id, c))
         => /\ normalizeChannelId(c) = Thrown
            /\ Val(reply').isError
            /\ IsNull(Val(reply').data)
            /\ UNCHANGED <<jobs, messages, processing, loops>>
    ]_vars

\* C27: at most one refresh of the dialog cache (the startup population or a
\* refresh after a miss) is in progress at any time.
C27_RefreshSerialized ==
  Cardinality({k \in CallIds : calls[k].pc = "refresh"}) <= 1

\* C28: a getMessagesByChannelId lookup that hits goes on to the history
\* request without any refresh and leaves the cache alone; a lookup that misses
\* starts one refresh; when that refresh returns the channel is looked up a
\* second time, and the call goes on if it is there and fails with NotFound if
\* it is still missing; no call runs more than one refresh.
C28_SingleShotRefresh ==
  /\ [](\A k \in ToolCallIds : calls[k].refreshes <= 1)
  /\ [][\A k \in ToolCallIds :
          /\ \A c \in ChannelIds :
               (authorized /\ CallStart(k, c, Null, Null))
                 => IF c \in dialogCache
                    THEN /\ calls'[k].pc = "history"
                         /\ calls'[k].refreshes = 0
                         /\ dialogCache' = dialogCache
                    ELSE /\ calls'[k].pc = "refresh"
                         /\ calls'[k].refreshes = 1
          /\ RefreshEnd(k)
               => /\ dialogCache' = dialogCache
                  /\ calls'[k].refreshes = calls[k].refreshes
                  /\ IF calls[k].channelId \in dialogCache
                     THEN calls'[k].pc = "history"
                     ELSE calls'[k].pc = "done" /\ calls'[k].out = CallError("NotFound")
          /\ calls[k].pc = "history"
               => /\ calls'[k].pc \in {"history", "done"}
                  /\ calls'[k].refreshes = calls[k].refreshes
       ]_vars

\* a call for a channel the account does not have has run one refresh and
\* failed with NotFound, while another call, which hit, is fetching history
\* without having refreshed
C28_Witness ==
  \E k, j \in ToolCallIds :
    /\ calls[k].pc = "done"
    /\ calls[k].channelId = 3
    /\ calls[k].refreshes = 1
    /\ calls[k].out = CallError("NotFound")
    /\ calls[j].pc = "history"
    /\ calls[j].refreshes = 0

\* ---------------------------------------------------------------- C29
\* the pattern occurs in the text of the message
TextMatches(pattern, id) == \E i \in 1..Len(TextOf(id)) : TextOf(id)[i] = pattern

\* what a getChannelMessages call with a pattern may answer, given the messages
\* the history request delivered: an error without messages when the pattern
\* does not compile; otherwise, unless the call failed for another reason, all
\* of the delivered messages counted and exactly the matching ones returned
FilterContract(out, fetched, limit, pattern) ==
  IF ~RegExpValid(pattern)
  THEN out.isError /\ out.returned = <<>>
  ELSE \/ out.isError
       \/ /\ out.totalFetched = Len(fetched)
          /\ out.returned = SelectSeq(fetched, LAMBDA id : TextMatches(pattern, id))
          /\ Len(out.returned) <= out.totalFetched
          /\ out.totalFetched <= limit

\* the result a session's transport sent, as a tool outcome
OutcomeOf(r) ==
  IF r.isError THEN Val(CallError("thrown")) ELSE Val(r.data)

\* C29: a getChannelMessages call whose filterPattern is not a valid regular
\* expression ends in an error that carries no messages; with a valid pattern
\* it returns exactly the fetched messages whose text matches, and
\* returned <= totalFetched <= limit.  Stated for both handlers: the HTTP
\* host's tool and the dialog-cache server's tool.
C29_FilterContract ==
  [][/\ \A id \in 1..MaxSessions, l \in LimitInputs, f \in Filters \ {Null} :
          GetChannelMessagesWith(id, NumberV(1), l, f)
            => FilterContract(OutcomeOf(Val(reply')),
                              iterHistoryNewer(history[1], hostLimit(l), 0),
                              hostLimit(l), Val(f))
     /\ \A k \in ToolCallIds :
          (HistoryDone(k) /\ ~IsNull(calls[k].filter))
            => FilterContract(Val(calls'[k].out),
                              iterHistoryNewer(history[calls[k].channelId],
                                               limitOrDefault(calls[k].limit), 0),
                              limitOrDefault(calls[k].limit), Val(calls[k].filter))]_vars

\* ---------------------------------------------------------------- C30
\* the chunk the history request of loop l, now in flight, delivers
ChunkOf(l) ==
  iterHistoryOlder(history[loops[l].peer],
                   chunkLimit(batchSize, loops[l].targetCount, loops[l].total),
                   loops[l].nextOffsetId)

\* the number of messages the backfill of loop l has handed to insertMessagesTx
\* when the step that leaves _processJob is over
InsertedBy(l) ==
  IF loops[l].pc = "hist" THEN loops[l].insertedCount + Len(ChunkOf(l))
  ELSE IF loops[l].pc = "batchDelay" THEN loops[l].insertedCount
  ELSE 0

\* the cursor the backward walk of loop l stands at when it stops
StopOffset(l) ==
  IF loops[l].pc = "resolve" THEN backfillOffset(loops[l].job, loops[l].lastMessageId)
  ELSE IF loops[l].pc = "hist" /\ ChunkOf(l) # <<>> THEN SetMin(Range(ChunkOf(l)))
  ELSE loops[l].nextOffsetId

\* the row of the job loop l is processing, when the step is over
RowAfter(l) == CHOOSE r \in Range(jobs') : r.id = loops[l].job.id

\* the messages the newer-sync request of the job of loop l delivers
NewerOf(l) ==
  iterHistoryNewer(history[Val(resolvePeer(normalizeChannelId(StringV(loops[l].job.channel_id))))],
                   batchSize, loops[l].job.last_message_id)

\* C30: when a _processJob run completes without error, the row is left
\* pending if the newer-sync filled a whole batch, or if the backfill inserted
\* at least one message and the channel's archived rows are still fewer than
\* the target, and idle otherwise; and the backfill stops only on an empty
\* chunk or with the archived row count at the target (or with the walk at
\* message id 1, below which nothing can be requested).
C30_FinalizeRule ==
  [][\A l \in LoopIds :
       Completes(l) =>
         LET L == loops[l]
             count == _countMessages(messages', L.job.channel_id)
             newerFilled == IF L.pc = "newer" THEN Len(NewerOf(l)) >= batchSize
                            ELSE L.hasMoreNewer
             more == newerFilled \/ (InsertedBy(l) > 0 /\ count < L.targetCount)
         IN  /\ loops'[l].doneStatus = IF more THEN PENDING ELSE IDLE
             /\ RowAfter(l).status = loops'[l].doneStatus
             /\ \/ L.pc = "hist" /\ ChunkOf(l) = <<>>
                \/ count >= (IF L.pc = "newer" THEN RowAfter(l).target_message_count
                             ELSE L.targetCount)
                \/ StopOffset(l) <= 1]_vars

\* ---------------------------------------------------------------- C31
\* the message ids archived for the channel of loop l's job, after the step
ArchivedAfter(l) ==
  {m.message_id : m \in {x \in messages' : x.channel_id = loops[l].job.channel_id}}

\* C31: when a _processJob run completes without error and the channel has
\* archived messages, the row's last_message_id is the greatest archived
\* message id of the channel and its oldest_message_id the smallest.
C31_CursorsBracketArchive ==
  [][\A l \in LoopIds :
       (Completes(l) /\ ArchivedAfter(l) # {})
         => /\ RowAfter(l).last_message_id = SetMax(ArchivedAfter(l))
            /\ RowAfter(l).oldest_message_id = Some(SetMin(ArchivedAfter(l)))]_vars

\* ---------------------------------------------------------------- C32
\* C32: when a _processJob run completes without error, the row's
\* message_count is the number of rows the messages table holds for the job's
\* channel_id, whether the gateway delivered new messages, messages already
\* archived, or both.
C32_CachedCount ==
  [][\A l \in LoopIds :
       Completes(l) => RowAfter(l).message_count = Cardinality(ArchivedAfter(l))]_vars

\* a run has just completed, idle, on a channel that holds enough messages,
\* with fewer rows than the target: the backfill was handed archived messages
\* again, and the count written is that of the table
C32_Witness ==
  \E l \in LoopIds :
    /\ loops[l].pc = "jobDelay"
    /\ loops[l].doneStatus = IDLE
    /\ LET r == DoneRow(l)
           rows == {m \in messages : m.channel_id = r.channel_id}
       IN  /\ r.message_count = Cardinality(rows)
           /\ r.message_count >= 1
           /\ r.message_count < r.target_message_count
           /\ r.target_message_count <= Cardinality(history[1])

\* ---------------------------------------------------------------- C33
\* C33: in every reachable state of the jobs table, a row whose
\* oldest_message_id is set has last_message_id >= oldest_message_id.
C33_CursorOrder ==
  \A r \in Range(jobs) :
    ~IsNull(r.oldest_message_id) => r.last_message_id >= Val(r.oldest_message_id)

\* a run with a backfill has completed: the row's oldest_message_id is set
\* and lies strictly below its last_message_id
C33_Witness ==
  \E l \in LoopIds :
    /\ loops[l].pc = "jobDelay"
    /\ loops[l].doneStatus \in {PENDING, IDLE}
    /\ ~IsNull(DoneRow(l).oldest_message_id)
    /\ Val(DoneRow(l).oldest_message_id) < DoneRow(l).last_message_id
    /\ DoneRow(l).message_count >= 2

\* ---------------------------------------------------------------- C34
\* the message ids archived for the channel of loop l's job
ArchivedOf(l) ==
  {m.message_id : m \in {x \in messages : x.channel_id = loops[l].job.channel_id}}

\* C34: a gateway failure during a history request inserts nothing of the
\* chunk under way and removes nothing archived before (no step ever removes
\* a row); and a backward history request of a job is in flight only after the
\* job's newer-sync request has returned and its messages have been inserted:
\* the backfill is entered from the newer-sync only, and while a job is in its
\* backfill every message its newer-sync request delivered is archived.
C34_ChunksAndOrder ==
  /\ [](\A l \in LoopIds :
          loops[l].pc \in {"resolve", "hist", "batchDelay"}
            => Range(NewerOf(l)) \subseteq ArchivedOf(l))
  /\ [][\A l \in LoopIds :
          /\ messages \subseteq messages'
          /\ (loops'[l].pc = "resolve" /\ loops[l].pc # "resolve") => loops[l].pc = "newer"
          /\ (loops'[l].pc = "hist" /\ loops[l].pc # "hist")
               => loops[l].pc \in {"resolve", "batchDelay"}
          /\ (\E m \in GatewayErrors \cup {OtherError} : GatewayFail(l, m))
               => messages' = messages]_vars

\* a job's first run has failed during its backfill: the row was never
\* finalized (message_count 0) and carries the error, while the messages of
\* the newer-sync are archived
C34_Witness ==
  \E l \in LoopIds :
    /\ loops[l].pc \in {"jobDelay", "floodSleep"}
    /\ loops[l].doneId # 0
    /\ ~IsNull(DoneRow(l).error)
    /\ DoneRow(l).message_count = 0
    /\ Cardinality({m \in messages : m.channel_id = DoneRow(l).channel_id}) = MaxMsgId

\* ---------------------------------------------------------------- C35
\* the row of the job loop l is processing, before the step
RowBefore(l) == CHOOSE r \in Range(jobs) : r.id = loops[l].job.id

\* C35: a scheduleMessageSync is not lost when it arrives while the worker
\* is processing the same channel's job: only a scheduleMessageSync call
\* changes a row's target_message_count, and a run that leaves the row idle
\* has processed it with the target the row holds.
C35_ScheduleNotLost ==
  [][/\ \A i \in 1..Len(jobs) :
          jobs'[i].target_message_count # jobs[i].target_message_count
            => \E d \in 1..MaxMsgId : ScheduleMessageSync(NumberV(1), Some(d))
     /\ \A l \in LoopIds :
          (Completes(l) /\ RowAfter(l).status = IDLE)
            => loops[l].job.target_message_count = RowBefore(l).target_message_count]_vars

\* ---------------------------------------------------------------- C36
\* the peer the channel of loop l's job resolves to
PeerOf(l) == Val(resolvePeer(normalizeChannelId(StringV(loops[l].job.channel_id))))

\* C36: the newer-sync leaves no gap: when a run of a job that had
\* last_message_id = L >= 1 completes, every message of the channel with an
\* id above L and up to the last_message_id the run writes is archived,
\* however many messages have accumulated above L.
C36_NoGapAboveCursor ==
  [][\A l \in LoopIds :
       (Completes(l) /\ loops[l].job.last_message_id >= 1)
         => \A i \in history[PeerOf(l)] :
              (i > loops[l].job.last_message_id /\ i <= RowAfter(l).last_message_id)
                => i \in ArchivedAfter(l)]_vars

ShortHistory(l) == Cardinality(history[PeerOf(l)]) < loops[l].job.target_message_count

\* C38: with a gateway that answers and a static history that holds fewer
\* messages than the target, the job comes to rest idle with every message of
\* the channel archived and counted, and the worker loop then leaves.  As
\* properties of finite runs: a run that completes leaves the row idle only
\* with the whole history archived and message_count equal to its size, and
\* leaves it pending only when the run has archived at least one more
\* message, so that the runs of a job are at most one more than the channel
\* has messages; and a loop that reaches its top with every row idle or error
\* leaves and releases the flag.
C38_ShortHistoryCompletes ==
  [][\A l \in LoopIds :
       /\ (Completes(l) /\ ShortHistory(l))
            => IF RowAfter(l).status = IDLE
               THEN /\ ArchivedAfter(l) = history[PeerOf(l)]
                    /\ RowAfter(l).message_count = Cardinality(history[PeerOf(l)])
               ELSE /\ RowAfter(l).status = PENDING
                    /\ RowAfter(l).message_count > loops[l].job.message_count
       /\ (loops[l].pc = "jobDelay" /\ loops'[l].pc # "jobDelay"
              /\ \A r \in Range(jobs) : r.status \in {IDLE, ERROR})
            => (~Running(l)' /\ ~processing')]_vars

\* ---------------------------------------------------------------- C39
\* C39: a lookup for chat 1, a dialog of the account since before the server
\* started, never meets an index that a refresh has cleared and not yet
\* repopulated: a getChannelMessages call for it never misses (it starts no
\* refresh of its own) and never ends with NotFound, however the calls
\* interleave.
C39_LookupNeverMissesDialog ==
  [][\A k \in ToolCallIds :
       (calls'[k] # calls[k] /\ calls'[k].channelId = 1)
         => /\ calls'[k].refreshes = 0
            /\ calls'[k].out # CallError("NotFound")]_vars

\* C40: the backfill loop of one run terminates whatever finite chunks the
\* gateway delivers. A history request is in flight only with the running
\* count below the target and the offset above 1; its limit is
\* min(batch, target - running count) and at least 1; the requests sent so far
\* in the run, each of which delivered at least one message, number at most
\* target - count at the start of the phase. A request that is followed by
\* another one has raised the running count by the messages it delivered, at
\* least by 1, and has left it below the target: an empty chunk ends the loop.
\* After the inter-batch delay the loop asks again only with the offset above
\* 1, and otherwise ends the run.
StartCount(l) == loops[l].total - loops[l].insertedCount

C40_BackfillTerminates ==
  /\ [](\A l \in LoopIds :
          loops[l].pc = "hist"
            => /\ loops[l].total < loops[l].targetCount
               /\ loops[l].nextOffsetId > 1
               /\ chunkLimit(batchSize, loops[l].targetCount, loops[l].total) >= 1
               /\ chunkLimit(batchSize, loops[l].targetCount, loops[l].total) <= batchSize
               /\ chunkLimit(batchSize, loops[l].targetCount, loops[l].total)
                     <= loops[l].targetCount - loops[l].total
               /\ loops[l].insertedCount >= 0
               /\ loops[l].insertedCount + 1 <= loops[l].targetCount - StartCount(l))
  /\ [][\A l \in LoopIds :
          /\ (loops[l].pc = "hist" /\ loops'[l] # loops[l])
               => \/ /\ loops'[l].pc = "batchDelay"
                     /\ loops'[l].insertedCount >= loops[l].insertedCount + 1
                     /\ loops'[l].total - loops[l].total
                          = loops'[l].insertedCount - loops[l].insertedCount
                     /\ loops'[l].total < loops'[l].targetCount
                     /\ loops'[l].targetCount = loops[l].targetCount
                     /\ loops'[l].job = loops[l].job
                  \/ loops'[l].pc \notin {"hist", "batchDelay", "resolve", "newer"}
          /\ (loops[l].pc = "batchDelay" /\ loops'[l] # loops[l])
               => \/ /\ loops'[l].pc = "hist"
                     /\ loops'[l].total = loops[l].total
                     /\ loops'[l].insertedCount = loops[l].insertedCount
                     /\ loops'[l].targetCount = loops[l].targetCount
                     /\ loops'[l].nextOffsetId = loops[l].nextOffsetId
                     /\ loops'[l].job = loops[l].job
                  \/ /\ loops'[l].pc \notin {"hist", "batchDelay", "resolve", "newer"}
                     /\ loops[l].nextOffsetId <= 1]_vars

\* a second history request of one run is in flight, the first one having
\* delivered a chunk
C40_Witness ==
  \E l \in LoopIds : loops[l].pc = "hist" /\ loops[l].insertedCount >= 1

====
